---- MODULE Spec2Model ----
(***************************************************************************)
(* The cooperative command scheduler of wpilibc                            *)
(* (src/wpilibc/src/main/native/cpp/Commands/Scheduler.cpp).               *)
(*                                                                         *)
(* Commands, subsystems and buttons are identified by their addresses,     *)
(* modelled as positive integers; std::set<T*> iterates in address order.  *)
(* Scheduler::Run is modelled one loop iteration per step, and             *)
(* Scheduler::ProcessCommandAddition one requirement per step, so that the *)
(* hooks it calls on commands (Cancel, Removed) are states of their own.   *)
(***************************************************************************)
EXTENDS Integers, Sequences, FiniteSets, TLC

(* ------------------------------ bounds --------------------------------- *)

NumCommands == 3

NumSubsystems == 2

NumButtons == 2

\* How many times the hooks of one tick try to start a command at once.
MaxReenter == 1

\* How many buttons AddButton registers at most, one of them possibly twice.
MaxButtons == 3

\* How many Ultrasonic objects the program constructs and destroys.
NumSensors == 2

\* How many digital channels have a handle, and the bits of a DIO register.
NumChannels == 3

\* How many int32_t objects the callers of the HAL pass as status.
NumStatus == 2

(* ------------------------------ universe ------------------------------- *)

\* nullptr
NULL == 0

\* the end() iterator of a std::set
END == 0

Commands == 1..NumCommands

Subsystems == 1..NumSubsystems

Buttons == 1..NumButtons

Sensors == 1..NumSensors

\* No operation of Ultrasonic is in progress.
NoOperation == [name |-> "none", self |-> NULL, originalMode |-> FALSE]

\* HAL_HANDLE_ERROR, and another error code a HAL function reports.
HAL_HANDLE_ERROR == 0 - 1098

PARAMETER_OUT_OF_RANGE == 0 - 1028

StatusValues == {0, HAL_HANDLE_ERROR, PARAMETER_OUT_OF_RANGE}

\* The addresses of the int32_t objects passed as status; none is nullptr.
StatusPointers == 1..NumStatus

\* The values of HAL_DigitalHandle: 0 is HAL_kInvalidHandle, handle h > 0
\* is the handle of the port of channel h - 1.
Handles == 0..NumChannels

\* The values of a DIO register.
Registers == 0..(2^NumChannels - 1)

\* UnsafeManipulateDIO has not been called.
NoCall == [handle |-> 0, status |-> NULL, entry |-> 0, maskStatus |-> 0, func |-> <<>>]

\* Command::GetRequirements(): the subsystems a command declared with
\* Requires() before it was started.  Command c requires subsystem c and
\* subsystem c - 1 (when they exist), so that neighbouring commands conflict
\* and command 2 needs two subsystems at once.
GetRequirements(c) == {s \in Subsystems : s = c \/ s + 1 = c}

\* The command a button starts when its Execute finds it pressed.
ButtonCommand(b) == ((b - 1) % NumCommands) + 1

VARIABLES
    m_enabled,                 \* Scheduler::m_enabled
    m_additions,               \* Scheduler::m_additions (std::vector<Command*>)
    m_buttons,                 \* Scheduler::m_buttons (std::vector<ButtonScheduler*>)
    m_commands,                \* Scheduler::m_commands (std::set<Command*>)
    m_subsystems,              \* Scheduler::m_subsystems (std::set<Subsystem*>)
    m_adding,                  \* Scheduler::m_adding
    m_runningCommandsChanged,  \* Scheduler::m_runningCommandsChanged
    currentCommand,            \* Subsystem::GetCurrentCommand(), per subsystem
    defaultCommand,            \* Subsystem::GetDefaultCommand(), per subsystem
    interruptible,             \* Command::IsInterruptible(), per command
    pc,                        \* where the tick thread is
    rButtonIter,               \* Run: index into m_buttons, counting down
    subsystemIter,             \* Run: iterator over m_subsystems
    commandIter,               \* Run: iterator over m_commands
    additionsIter,             \* Run: index into m_additions
    command,                   \* ProcessCommandAddition: its argument
    iter,                      \* ProcessCommandAddition: iterator over requirements
    m_additionsMutex,          \* Scheduler::m_additionsMutex: who holds it
    log,                       \* the calls made by the operation in progress
    entries,                   \* holders and running set at each entry of ProcessCommandAddition in this tick
    canceled,                  \* the running commands on which Cancel was called
    m_cancelEntry,             \* the "Cancel" entry of the table: ids to cancel
    m_namesEntry,              \* the "Names" entry of the table, as last published
    m_idsEntry,                \* the "Ids" entry of the table, as last published
    registered,                \* the registered subsystems in the order of their registration
    applied,                   \* the commands an update called Cancel on, with no list published in a later update yet
    m_automaticEnabled,        \* Ultrasonic::m_automaticEnabled
    m_sensors,                 \* Ultrasonic::m_sensors (std::vector<Ultrasonic*>)
    m_thread,                  \* Ultrasonic::m_thread: "none" or "joinable"
    m_counter,                 \* Ultrasonic::m_counter.Get(), per sensor
    m_enabledSensor,           \* Ultrasonic::m_enabled (IsEnabled()), per sensor
    constructed,               \* the Ultrasonic objects that exist
    checker,                   \* where the thread of UltrasonicChecker is
    sensorIter,                \* UltrasonicChecker: index into m_sensors
    pinged,                    \* the sensors pinged by UltrasonicChecker whose wait has not ended
    caller,                    \* where the thread that calls the Ultrasonic operations is
    operation,                 \* the Ultrasonic operation in progress, its sensor and the mode it found
    return,                    \* where SetAutomaticMode returns to
    asserted,                  \* whether the last Ping failed its wpi_assert
    outputEnable,              \* tDIO: the OutputEnable register
    DO,                        \* tDIO: the DO register
    status,                    \* *status of the last UnsafeManipulateDIO call
    dioCall,                   \* the arguments of the last UnsafeManipulateDIO call
    funcCalls                  \* the calls of func made by the last UnsafeManipulateDIO call

scheduler == <<m_enabled, m_additions, m_buttons, m_commands, m_subsystems, m_adding,
               m_runningCommandsChanged, currentCommand, defaultCommand, interruptible,
               pc, rButtonIter, subsystemIter, commandIter, additionsIter, command,
               iter, m_additionsMutex, log, entries,
               canceled, m_cancelEntry, m_namesEntry, m_idsEntry, applied, registered>>

sonic == <<m_automaticEnabled, m_sensors, m_thread, m_counter, m_enabledSensor,
           constructed, checker, sensorIter, pinged, caller, operation, return, asserted>>

dio == <<outputEnable, DO, status, dioCall, funcCalls>>

vars == <<scheduler, sonic, dio>>

config == <<defaultCommand, interruptible, m_buttons, m_subsystems, registered>>

locals == <<rButtonIter, subsystemIter, commandIter, additionsIter, command, iter>>

table == <<m_cancelEntry, m_namesEntry, m_idsEntry, applied>>

(* ------------------------------ helpers -------------------------------- *)

Min(S) == CHOOSE x \in S : \A y \in S : x <= y

\* begin() of a std::set
Begin(S) == IF S = {} THEN END ELSE Min(S)

\* ++it on a std::set iterator that points at x
Succ(S, x) == Begin({y \in S : y > x})

\* One call made by the scheduler: the function, its receiver or argument,
\* and the line of Scheduler.cpp that makes the call.
Call(f, a, at) == [f |-> f, a |-> a, at |-> at]

NoEntry == [current |-> [s \in Subsystems |-> NULL], commands |-> {}, arg |-> NULL]

\* Holders, running set and argument when ProcessCommandAddition was last entered.
AtEntry == IF entries = <<>> THEN NoEntry ELSE entries[Len(entries)]

(* ------------------------- collaborators' state ------------------------ *)

\* SetCurrentCommand that has an effect on the first subsystem only.
SetCurrentCommandOnFirst(current, s, c) ==
    IF s = Min(Subsystems) THEN [current EXCEPT ![s] = c] ELSE current

\* Subsystem::SetCurrentCommand(c) on subsystem s
SetCurrentCommand(current, s, c) == [current EXCEPT ![s] = c]

\* The default commands a program can configure: a default command must
\* require its subsystem.
DefaultCommands ==
    {d \in [Subsystems -> Commands \cup {NULL}] :
        \A s \in Subsystems : d[s] = NULL \/ s \in GetRequirements(d[s])}

\* Command::GetID(): commands are numbered from 0 as they are constructed.
GetID(c) == c - 1

\* Command::GetName(): by default the name of the command's class, which
\* several commands may share.
GetName(c) == IF c % 2 = 1 THEN "Drive" ELSE "Turn"

\* Command::Removed() ends the command, cancelled or not: only running
\* commands are marked, and no step of the scheduler touches the table.
KeepTelemetry ==
    /\ canceled' = canceled \cap m_commands'
    /\ UNCHANGED table

(* ------------------------------ Init ----------------------------------- *)

Init ==
    /\ m_enabled = TRUE
    /\ m_additions = <<>>
    /\ m_buttons = [i \in 1..NumButtons |-> i]
    /\ m_commands = {}
    /\ m_subsystems = Subsystems
    /\ m_adding = FALSE
    /\ m_runningCommandsChanged = FALSE
    /\ currentCommand = [s \in Subsystems |-> NULL]
    /\ defaultCommand \in DefaultCommands
    /\ interruptible \in [Commands -> BOOLEAN]
    /\ pc = "idle"
    /\ rButtonIter = 0
    /\ subsystemIter = END
    /\ commandIter = END
    /\ additionsIter = 0
    /\ command = NULL
    /\ iter = END
    /\ m_additionsMutex = "free"
    /\ log = <<>>
    /\ entries = <<>>
    /\ canceled = {}
    /\ m_cancelEntry = {}
    /\ m_namesEntry = <<>>
    /\ m_idsEntry = <<>>
    /\ applied = {}
    /\ registered = [i \in 1..NumSubsystems |-> i]
    /\ m_automaticEnabled = FALSE
    /\ m_sensors = <<>>
    /\ m_thread = "none"
    /\ m_counter = [s \in Sensors |-> 0]
    /\ m_enabledSensor = [s \in Sensors |-> FALSE]
    /\ constructed = {}
    /\ checker = "off"
    /\ sensorIter = 0
    /\ pinged = {}
    /\ caller = "idle"
    /\ operation = NoOperation
    /\ return = "idle"
    /\ asserted = FALSE
    /\ outputEnable = 0
    /\ DO = 0
    /\ status = 0
    /\ dioCall = NoCall
    /\ funcCalls = <<>>

(* ------------------- AddCommand, SetEnabled (lines 36-52) -------------- *)

\* The queue after AddCommand(c): a command already queued is not queued again.
\* Added without the search of the queue.
AddedAgain(additions, c) ==
    IF Len(additions) > NumCommands THEN additions ELSE Append(additions, c)

\* Added that puts the command at the front of the queue.
AddedInFront(additions, c) ==
    IF \E i \in 1..Len(additions) : additions[i] = c
    THEN additions
    ELSE <<c>> \o additions

Added(additions, c) ==
    IF \E i \in 1..Len(additions) : additions[i] = c
    THEN additions
    ELSE Append(additions, c)

\* Scheduler::AddCommand called by the program between two ticks (Command::Start).
AddCommand(c) ==
    /\ pc = "idle"
    /\ m_additionsMutex = "free"
    /\ m_additions' = Added(m_additions, c)
    /\ log' = <<>>
    /\ UNCHANGED <<m_enabled, m_commands, m_adding, m_runningCommandsChanged,
                   currentCommand, pc, m_additionsMutex, entries>>
    /\ UNCHANGED config
    /\ UNCHANGED <<sonic, dio>>
    /\ KeepTelemetry
    /\ UNCHANGED locals

SetEnabled(enabled) ==
    /\ pc = "idle"
    /\ m_enabled' = enabled
    /\ log' = <<>>
    /\ UNCHANGED <<m_additions, m_commands, m_adding, m_runningCommandsChanged,
                   currentCommand, pc, m_additionsMutex, entries>>
    /\ UNCHANGED config
    /\ UNCHANGED <<sonic, dio>>
    /\ KeepTelemetry
    /\ UNCHANGED locals

(* ------------------- RegisterSubsystem (lines 178-184) ----------------- *)

\* RegisterSubsystem that does not look for nullptr.
RegisterSubsystemUnchecked(s) ==
    /\ pc = "idle"
    /\ m_subsystems' = m_subsystems \cup {s}
    /\ registered' = IF s \in m_subsystems THEN registered ELSE Append(registered, s)
    /\ log' = <<>>
    /\ UNCHANGED <<m_enabled, m_additions, m_commands, m_adding, m_runningCommandsChanged,
                   currentCommand, pc, m_additionsMutex, entries>>
    /\ UNCHANGED <<defaultCommand, interruptible, m_buttons>>
    /\ UNCHANGED <<sonic, dio>>
    /\ UNCHANGED locals
    /\ KeepTelemetry

\* Scheduler::RegisterSubsystem called by the program between two ticks; a
\* Subsystem registers itself when it is constructed, and may do so again.
RegisterSubsystem(s) ==
    /\ pc = "idle"
    /\ IF s = NULL
       THEN /\ log' = <<Call("NullParameter", NULL, 180)>>
            /\ UNCHANGED <<m_subsystems, registered>>
       ELSE /\ m_subsystems' = m_subsystems \cup {s}
            /\ registered' = IF s \in m_subsystems THEN registered ELSE Append(registered, s)
            /\ log' = <<>>
    /\ UNCHANGED <<m_enabled, m_additions, m_commands, m_adding, m_runningCommandsChanged,
                   currentCommand, pc, m_additionsMutex, entries>>
    /\ UNCHANGED <<defaultCommand, interruptible, m_buttons>>
    /\ UNCHANGED <<sonic, dio>>
    /\ UNCHANGED locals
    /\ KeepTelemetry

(* ------------------- Remove, RemoveAll (lines 191-212) ----------------- *)

\* The part of the state Remove works on.
State == [commands |-> m_commands, current |-> currentCommand, log |-> log]

\* Erases with the result of erase ignored.
ErasesAlways(commands, c) == TRUE

\* m_commands.erase(command) != 0
Erases(commands, c) == c \in commands

\* RemoveFrom without the call of Removed.
RemoveSilently(st, c) ==
    IF c = NULL
    THEN [st EXCEPT !.log = Append(@, Call("NullParameter", NULL, 193))]
    ELSE IF ~Erases(st.commands, c)
    THEN st
    ELSE [commands |-> st.commands \ {c},
          current |-> [s \in Subsystems |->
                          IF s \in GetRequirements(c) THEN NULL ELSE st.current[s]],
          log |-> st.log]

\* RemoveFrom that clears the holder of every subsystem.
RemoveClearsEverySubsystem(st, c) ==
    IF c = NULL
    THEN [st EXCEPT !.log = Append(@, Call("NullParameter", NULL, 193))]
    ELSE IF ~Erases(st.commands, c)
    THEN st
    ELSE [commands |-> st.commands \ {c},
          current |-> [s \in Subsystems |-> NULL],
          log |-> Append(st.log, Call("Removed", c, 205))]

\* RemoveFrom that leaves the subsystems with the removed command.
RemoveKeepsHolders(st, c) ==
    IF c = NULL
    THEN [st EXCEPT !.log = Append(@, Call("NullParameter", NULL, 193))]
    ELSE IF ~Erases(st.commands, c)
    THEN st
    ELSE [commands |-> st.commands \ {c},
          current |-> st.current,
          log |-> Append(st.log, Call("Removed", c, 205))]

\* RemoveFrom that calls Removed inside the loop over the requirements, when
\* only the first of them has been cleared.
RemovedInsideLoop(st, c) ==
    IF c = NULL
    THEN [st EXCEPT !.log = Append(@, Call("NullParameter", NULL, 193))]
    ELSE IF ~Erases(st.commands, c)
    THEN st
    ELSE [commands |-> st.commands \ {c},
          current |-> [s \in Subsystems |->
                          IF s = Begin(GetRequirements(c)) THEN NULL ELSE st.current[s]],
          log |-> Append(st.log, Call("Removed", c, 205))]

\* Scheduler::Remove(c) applied to st
RemoveFrom(st, c) ==
    IF c = NULL
    THEN [st EXCEPT !.log = Append(@, Call("NullParameter", NULL, 193))]
    ELSE IF ~Erases(st.commands, c)
    THEN st
    ELSE [commands |-> st.commands \ {c},
          current |-> [s \in Subsystems |->
                          IF s \in GetRequirements(c) THEN NULL ELSE st.current[s]],
          log |-> Append(st.log, Call("Removed", c, 205))]

RECURSIVE RemoveAllFrom(_)
\* Scheduler::RemoveAll() applied to st
RemoveAllFrom(st) ==
    IF Cardinality(st.commands) > 0
    THEN RemoveAllFrom(RemoveFrom(st, Begin(st.commands)))
    ELSE st

\* Scheduler::Remove called by the program between two ticks
Remove(c) ==
    /\ pc = "idle"
    /\ LET st == RemoveFrom([State EXCEPT !.log = <<>>], c)
       IN  /\ m_commands' = st.commands
           /\ currentCommand' = st.current
           /\ log' = st.log
    /\ UNCHANGED <<m_enabled, m_additions, m_adding, m_runningCommandsChanged,
                   pc, m_additionsMutex, entries>>
    /\ UNCHANGED config
    /\ UNCHANGED <<sonic, dio>>
    /\ KeepTelemetry
    /\ UNCHANGED locals

\* Scheduler::RemoveAll called by the program between two ticks
RemoveAll ==
    /\ pc = "idle"
    /\ LET st == RemoveAllFrom([State EXCEPT !.log = <<>>])
       IN  /\ m_commands' = st.commands
           /\ currentCommand' = st.current
           /\ log' = st.log
    /\ UNCHANGED <<m_enabled, m_additions, m_adding, m_runningCommandsChanged,
                   pc, m_additionsMutex, entries>>
    /\ UNCHANGED config
    /\ UNCHANGED <<sonic, dio>>
    /\ KeepTelemetry
    /\ UNCHANGED locals

(* ------------- ProcessCommandAddition (lines 59-100) ------------------- *)

\* RequirementsDenied looking at the first requirement only.
FirstRequirementDenied(c) ==
    /\ GetRequirements(c) # {}
    /\ currentCommand[Begin(GetRequirements(c))] # NULL
    /\ ~interruptible[currentCommand[Begin(GetRequirements(c))]]

\* RequirementsDenied that lets the default loop take any subsystem.
DeniedUnlessDefault(c) ==
    /\ pc # "fill"
    /\ \E lock \in GetRequirements(c) :
           /\ currentCommand[lock] # NULL
           /\ ~interruptible[currentCommand[lock]]

\* Lines 72-80: some requirement is held by a command that may not be interrupted.
RequirementsDenied(c) ==
    \E lock \in GetRequirements(c) :
        /\ currentCommand[lock] # NULL
        /\ ~interruptible[currentCommand[lock]]

\* Entry without the check that the command is already running.
EntryReadds(c) ==
    IF c = NULL THEN "return"
    ELSE IF m_adding THEN "IncompatibleState"
    ELSE IF RequirementsDenied(c) THEN "return"
    ELSE "give"

\* Entry without the check of m_adding.
EntryUnguarded(c) ==
    IF c = NULL THEN "return"
    ELSE IF c \in m_commands THEN "return"
    ELSE IF RequirementsDenied(c) THEN "return"
    ELSE "give"

\* Lines 60-80: what ProcessCommandAddition(c) does before it changes anything.
Entry(c) ==
    IF c = NULL THEN "return"
    ELSE IF m_adding THEN "IncompatibleState"
    ELSE IF c \in m_commands THEN "return"
    ELSE IF RequirementsDenied(c) THEN "return"
    ELSE "give"

\* ProcessCommandAddition returns to line 154 (the drain loop) or to line
\* 164 (the default loop).
ReturnToRun ==
    IF additionsIter # 0
    THEN /\ pc' = "drain"
         /\ additionsIter' = additionsIter + 1
    ELSE /\ pc' = "confirm"
         /\ UNCHANGED additionsIter

\* Run calls ProcessCommandAddition(c) at line `at`.
ProcessCommandAddition(c, at) ==
    LET called == Append(log, Call("ProcessCommandAddition", c, at))
    IN  /\ entries' = Append(entries, [current |-> currentCommand, commands |-> m_commands, arg |-> c])
        /\ IF Entry(c) = "give"
           THEN /\ m_adding' = TRUE
                /\ command' = c
                /\ iter' = Begin(GetRequirements(c))
                /\ pc' = "give"
                /\ log' = called
                /\ UNCHANGED additionsIter
           ELSE /\ log' = IF Entry(c) = "IncompatibleState"
                          THEN Append(called, Call("IncompatibleState", NULL, 64))
                          ELSE called
                /\ ReturnToRun
                /\ UNCHANGED <<m_adding, command, iter>>
        /\ UNCHANGED <<m_commands, currentCommand, m_runningCommandsChanged>>

\* Lines 84-98: one turn of the loop that hands over the requirements, up to
\* the call of Cancel on a holder; after the loop, the command starts.
Give ==
    /\ pc = "give"
    /\ IF iter = END
       THEN /\ m_adding' = FALSE
            /\ m_commands' = m_commands \cup {command}
            /\ log' = Append(log, Call("StartRunning", command, 97))
            /\ m_runningCommandsChanged' = TRUE
            /\ command' = NULL
            /\ ReturnToRun
            /\ UNCHANGED <<currentCommand, iter, canceled>>
       ELSE IF currentCommand[iter] # NULL
       THEN /\ log' = Append(log, Call("Cancel", currentCommand[iter], 88))
            /\ pc' = "Cancel"
            /\ canceled' = canceled \cup {currentCommand[iter]}
            /\ UNCHANGED <<m_adding, m_commands, m_runningCommandsChanged, command,
                           currentCommand, iter, additionsIter>>
       ELSE /\ currentCommand' = SetCurrentCommand(currentCommand, iter, command)
            /\ iter' = Succ(GetRequirements(command), iter)
            /\ UNCHANGED <<m_adding, m_commands, m_runningCommandsChanged, command,
                           pc, additionsIter, log, canceled>>
    /\ UNCHANGED <<m_enabled, m_additions, m_additionsMutex, entries,
                   rButtonIter, subsystemIter, commandIter>>
    /\ UNCHANGED config
    /\ UNCHANGED <<sonic, dio>>
    /\ UNCHANGED table

\* Displace with the holder cancelled but not removed.
DisplaceCancelOnly ==
    /\ pc = "Cancel"
    /\ pc' = "Removed"
    /\ UNCHANGED <<m_enabled, m_additions, m_commands, m_adding, currentCommand,
                   m_runningCommandsChanged, m_additionsMutex, log, entries>>
    /\ UNCHANGED config
    /\ UNCHANGED <<sonic, dio>>
    /\ KeepTelemetry
    /\ UNCHANGED locals

\* Line 89: Cancel has returned; Remove(holder) runs up to its call of Removed.
Displace ==
    /\ pc = "Cancel"
    /\ LET st == RemoveFrom(State, currentCommand[iter])
       IN  /\ m_commands' = st.commands
           /\ currentCommand' = st.current
           /\ log' = st.log
    /\ pc' = "Removed"
    /\ UNCHANGED <<m_enabled, m_additions, m_adding, m_runningCommandsChanged,
                   m_additionsMutex, entries>>
    /\ UNCHANGED config
    /\ UNCHANGED <<sonic, dio>>
    /\ KeepTelemetry
    /\ UNCHANGED locals

\* Line 91: Removed has returned; the subsystem goes to the new command.
Take ==
    /\ pc = "Removed"
    /\ currentCommand' = SetCurrentCommand(currentCommand, iter, command)
    /\ iter' = Succ(GetRequirements(command), iter)
    /\ pc' = "give"
    /\ UNCHANGED <<m_enabled, m_additions, m_commands, m_adding,
                   m_runningCommandsChanged, m_additionsMutex, log, entries,
                   rButtonIter, subsystemIter, commandIter, additionsIter, command>>
    /\ UNCHANGED config
    /\ UNCHANGED <<sonic, dio>>
    /\ KeepTelemetry

RECURSIVE GiveAll(_, _, _)
\* Lines 84-92 in one piece, from requirement `lock` on: the state after the
\* loop has handed the remaining requirements to c.
GiveAll(st, c, lock) ==
    IF lock = END
    THEN st
    ELSE LET holder == st.current[lock]
             freed == IF holder # NULL
                      THEN RemoveFrom([st EXCEPT !.log = Append(@, Call("Cancel", holder, 88))],
                                      holder)
                      ELSE st
         IN  GiveAll([freed EXCEPT !.current = SetCurrentCommand(@, lock, c)],
                     c, Succ(GetRequirements(c), lock))

\* The Cancel or Removed hook of a command that is being displaced tries to
\* start command c at once: ProcessCommandAddition(c) is entered while the
\* outer call is inside its loop.
Reenter(c) ==
    /\ pc \in {"Cancel", "Removed"}
    /\ Len(SelectSeq(log, LAMBDA e : e.f = "IncompatibleState")) < MaxReenter
    /\ IF Entry(c) = "give"
       THEN LET st == GiveAll(State, c, Begin(GetRequirements(c)))
            IN  /\ m_adding' = FALSE
                /\ m_commands' = st.commands \cup {c}
                /\ currentCommand' = st.current
                /\ log' = Append(st.log, Call("StartRunning", c, 97))
                /\ m_runningCommandsChanged' = TRUE
       ELSE /\ log' = IF Entry(c) = "IncompatibleState"
                      THEN Append(log, Call("IncompatibleState", NULL, 64))
                      ELSE log
            /\ UNCHANGED <<m_adding, m_commands, currentCommand,
                           m_runningCommandsChanged>>
    /\ UNCHANGED <<m_enabled, m_additions, pc, m_additionsMutex, entries>>
    /\ UNCHANGED config
    /\ UNCHANGED <<sonic, dio>>
    /\ KeepTelemetry
    /\ UNCHANGED locals

(* ------------------------- Run (lines 116-168) ------------------------- *)

\* AfterEnabledCheck that skips the buttons only.
AfterEnabledCheckSkipsButtons(enabled) == IF enabled THEN "buttons" ELSE "periodic"

\* Line 119: where Run goes after looking at m_enabled.
AfterEnabledCheck(enabled) == IF enabled THEN "buttons" ELSE "done"

\* NextPhase with the default commands added before the queued ones.
NextPhaseDefaultsFirst(phase) ==
    CASE phase = "buttons" -> "periodic"
      [] phase = "periodic" -> "step"
      [] phase = "step" -> "fill"
      [] phase = "fill" -> "drain"
      [] phase = "drain" -> "done"

\* The order of the loops of Run.
NextPhase(phase) ==
    CASE phase = "buttons" -> "periodic"
      [] phase = "periodic" -> "step"
      [] phase = "step" -> "drain"
      [] phase = "drain" -> "fill"
      [] phase = "fill" -> "done"

\* GoTo with the additions mutex never released.
GoToKeepsMutex(phase) ==
    /\ pc' = phase
    /\ rButtonIter' = IF phase = "buttons" THEN Len(m_buttons) ELSE 0
    /\ subsystemIter' = IF phase \in {"periodic", "fill"} THEN Begin(m_subsystems) ELSE END
    /\ commandIter' = IF phase = "step" THEN Begin(m_commands) ELSE END
    /\ additionsIter' = IF phase = "drain" THEN 1 ELSE 0
    /\ phase = "drain" => m_additionsMutex = "free"
    /\ m_additionsMutex' = IF phase = "drain" THEN "Run" ELSE m_additionsMutex

\* Run moves on to `phase`: the loop's iterator is set to its start, and the
\* additions mutex is held during the drain loop and only there.
GoTo(phase) ==
    /\ pc' = phase
    /\ rButtonIter' = IF phase = "buttons" THEN Len(m_buttons) ELSE 0
    /\ subsystemIter' = IF phase \in {"periodic", "fill"} THEN Begin(m_subsystems) ELSE END
    /\ commandIter' = IF phase = "step" THEN Begin(m_commands) ELSE END
    /\ additionsIter' = IF phase = "drain" THEN 1 ELSE 0
    /\ phase = "drain" => m_additionsMutex = "free"
    /\ m_additionsMutex' = IF phase = "drain" THEN "Run" ELSE "free"

\* Run is called; a scheduler that is not enabled returns at once.
RunEnter ==
    /\ pc = "idle"
    /\ GoTo(AfterEnabledCheck(m_enabled))
    /\ log' = <<>>
    /\ entries' = <<>>
    /\ UNCHANGED <<m_enabled, m_additions, m_commands, m_adding,
                   m_runningCommandsChanged, currentCommand, command, iter>>
    /\ UNCHANGED config
    /\ UNCHANGED <<sonic, dio>>
    /\ KeepTelemetry

\* Lines 121-126: the buttons, last registered first.  A button that finds
\* itself pressed starts its command, which calls AddCommand.
RunButtons ==
    /\ pc = "buttons"
    /\ IF rButtonIter = 0
       THEN /\ GoTo(NextPhase("buttons"))
            /\ UNCHANGED <<log, m_additions>>
       ELSE /\ log' = Append(log, Call("Execute", m_buttons[rButtonIter], 124))
            /\ \E pressed \in BOOLEAN :
                   m_additions' = IF pressed
                                  THEN Added(m_additions, ButtonCommand(m_buttons[rButtonIter]))
                                  ELSE m_additions
            /\ rButtonIter' = rButtonIter - 1
            /\ UNCHANGED <<pc, subsystemIter, commandIter, additionsIter, m_additionsMutex>>
    /\ UNCHANGED <<m_enabled, m_commands, m_adding, m_runningCommandsChanged,
                   currentCommand, entries, command, iter>>
    /\ UNCHANGED config
    /\ UNCHANGED <<sonic, dio>>
    /\ KeepTelemetry

\* RunPeriodic that passes over the subsystems without current command.
RunPeriodicSkipsIdle ==
    /\ pc = "periodic"
    /\ IF subsystemIter = END
       THEN /\ m_runningCommandsChanged' = FALSE
            /\ GoTo(NextPhase("periodic"))
            /\ UNCHANGED log
       ELSE /\ log' = IF currentCommand[subsystemIter] = NULL THEN log
                      ELSE Append(log, Call("Periodic", subsystemIter, 132))
            /\ subsystemIter' = Succ(m_subsystems, subsystemIter)
            /\ UNCHANGED <<m_runningCommandsChanged, pc, rButtonIter, commandIter,
                           additionsIter, m_additionsMutex>>
    /\ UNCHANGED <<m_enabled, m_additions, m_commands, m_adding, currentCommand,
                   entries, command, iter>>
    /\ UNCHANGED config
    /\ UNCHANGED <<sonic, dio>>
    /\ KeepTelemetry

\* Lines 128-135: every subsystem's Periodic, then the changed flag is reset.
RunPeriodic ==
    /\ pc = "periodic"
    /\ IF subsystemIter = END
       THEN /\ m_runningCommandsChanged' = FALSE
            /\ GoTo(NextPhase("periodic"))
            /\ UNCHANGED log
       ELSE /\ log' = Append(log, Call("Periodic", subsystemIter, 132))
            /\ subsystemIter' = Succ(m_subsystems, subsystemIter)
            /\ UNCHANGED <<m_runningCommandsChanged, pc, rButtonIter, commandIter,
                           additionsIter, m_additionsMutex>>
    /\ UNCHANGED <<m_enabled, m_additions, m_commands, m_adding, currentCommand,
                   entries, command, iter>>
    /\ UNCHANGED config
    /\ UNCHANGED <<sonic, dio>>
    /\ KeepTelemetry

\* RunStep that increments the iterator after the removal and so passes over
\* the command that follows a removed one.
RunStepSkipsAfterRemoval ==
    /\ pc = "step"
    /\ IF commandIter = END
       THEN /\ GoTo(NextPhase("step"))
            /\ UNCHANGED <<m_commands, currentCommand, log, m_runningCommandsChanged>>
       ELSE /\ \E running \in (IF commandIter \in canceled THEN {FALSE} ELSE BOOLEAN) :
                   LET ran == [State EXCEPT !.log = Append(@, Call("Run", commandIter, 143))]
                       st == IF running THEN ran ELSE RemoveFrom(ran, commandIter)
                       next == Succ(m_commands, commandIter)
                   IN  /\ commandIter' = IF running \/ next = END THEN next
                                          ELSE Succ(m_commands, next)
                       /\ m_commands' = st.commands
                       /\ currentCommand' = st.current
                       /\ log' = st.log
                       /\ m_runningCommandsChanged' = (~running \/ m_runningCommandsChanged)
            /\ UNCHANGED <<pc, rButtonIter, subsystemIter, additionsIter, m_additionsMutex>>
    /\ UNCHANGED <<m_enabled, m_additions, m_adding, entries, command, iter>>
    /\ UNCHANGED config
    /\ UNCHANGED <<sonic, dio>>
    /\ KeepTelemetry

\* Lines 137-151: every running command is run once; one whose Run returns
\* false is removed, and the Run of a cancelled command returns false.
\* After the loop Run takes the additions mutex.
RunStep ==
    /\ pc = "step"
    /\ IF commandIter = END
       THEN /\ GoTo(NextPhase("step"))
            /\ UNCHANGED <<m_commands, currentCommand, log, m_runningCommandsChanged>>
       ELSE /\ commandIter' = Succ(m_commands, commandIter)
            /\ \E running \in (IF commandIter \in canceled THEN {FALSE} ELSE BOOLEAN) :
                   LET ran == [State EXCEPT !.log = Append(@, Call("Run", commandIter, 143))]
                       st == IF running THEN ran ELSE RemoveFrom(ran, commandIter)
                   IN  /\ m_commands' = st.commands
                       /\ currentCommand' = st.current
                       /\ log' = st.log
                       /\ m_runningCommandsChanged' = (~running \/ m_runningCommandsChanged)
            /\ UNCHANGED <<pc, rButtonIter, subsystemIter, additionsIter, m_additionsMutex>>
    /\ UNCHANGED <<m_enabled, m_additions, m_adding, entries, command, iter>>
    /\ UNCHANGED config
    /\ UNCHANGED <<sonic, dio>>
    /\ KeepTelemetry

\* RunDrain that keeps the commands it could not add for the next tick.
RunDrainKeepsRejected ==
    /\ pc = "drain"
    /\ IF additionsIter > Len(m_additions)
       THEN /\ m_additions' = SelectSeq(m_additions, LAMBDA c : c \notin m_commands)
            /\ GoTo(NextPhase("drain"))
            /\ UNCHANGED <<m_commands, m_adding, m_runningCommandsChanged,
                           currentCommand, command, iter, log, entries>>
       ELSE /\ ProcessCommandAddition(m_additions[additionsIter], 154)
            /\ UNCHANGED <<m_additions, m_additionsMutex, rButtonIter, subsystemIter,
                           commandIter>>
    /\ UNCHANGED m_enabled
    /\ UNCHANGED config
    /\ UNCHANGED <<sonic, dio>>
    /\ KeepTelemetry

\* Lines 152-157: the queued commands in order; then the queue is cleared
\* and the mutex released.
RunDrain ==
    /\ pc = "drain"
    /\ IF additionsIter > Len(m_additions)
       THEN /\ m_additions' = <<>>
            /\ GoTo(NextPhase("drain"))
            /\ UNCHANGED <<m_commands, m_adding, m_runningCommandsChanged,
                           currentCommand, command, iter, log, entries>>
       ELSE /\ ProcessCommandAddition(m_additions[additionsIter], 154)
            /\ UNCHANGED <<m_additions, m_additionsMutex, rButtonIter, subsystemIter,
                           commandIter>>
    /\ UNCHANGED m_enabled
    /\ UNCHANGED config
    /\ UNCHANGED <<sonic, dio>>
    /\ KeepTelemetry

\* RunFill that never adds a default command.
RunFillWithoutDefault ==
    /\ pc = "fill"
    /\ IF subsystemIter = END
       THEN GoTo(NextPhase("fill"))
       ELSE /\ pc' = "confirm"
            /\ UNCHANGED <<additionsIter, m_additionsMutex, rButtonIter, subsystemIter,
                           commandIter>>
    /\ UNCHANGED <<m_commands, m_adding, m_runningCommandsChanged,
                   currentCommand, command, iter, log, entries>>
    /\ UNCHANGED <<m_enabled, m_additions>>
    /\ UNCHANGED config
    /\ UNCHANGED <<sonic, dio>>
    /\ KeepTelemetry

\* Lines 160-165: a subsystem without current command gets its default
\* command, if that can be added.
RunFill ==
    /\ pc = "fill"
    /\ IF subsystemIter = END
       THEN /\ GoTo(NextPhase("fill"))
            /\ UNCHANGED <<m_commands, m_adding, m_runningCommandsChanged,
                           currentCommand, command, iter, log, entries>>
       ELSE /\ IF currentCommand[subsystemIter] = NULL
               THEN ProcessCommandAddition(defaultCommand[subsystemIter], 164)
               ELSE /\ pc' = "confirm"
                    /\ UNCHANGED <<m_commands, m_adding, m_runningCommandsChanged,
                                   currentCommand, command, iter, log, entries,
                                   additionsIter>>
            /\ UNCHANGED <<m_additionsMutex, rButtonIter, subsystemIter, commandIter>>
    /\ UNCHANGED <<m_enabled, m_additions>>
    /\ UNCHANGED config
    /\ UNCHANGED <<sonic, dio>>
    /\ KeepTelemetry

\* Line 166: ConfirmCommand, and on to the next subsystem.
RunConfirm ==
    /\ pc = "confirm"
    /\ log' = Append(log, Call("ConfirmCommand", subsystemIter, 166))
    /\ subsystemIter' = Succ(m_subsystems, subsystemIter)
    /\ pc' = "fill"
    /\ UNCHANGED <<m_enabled, m_additions, m_commands, m_adding,
                   m_runningCommandsChanged, currentCommand, m_additionsMutex, entries,
                   rButtonIter, commandIter, additionsIter, command, iter>>
    /\ UNCHANGED config
    /\ UNCHANGED <<sonic, dio>>
    /\ KeepTelemetry

\* Line 168 (or 119): Run returns to the program.
RunReturn ==
    /\ pc = "done"
    /\ pc' = "idle"
    /\ log' = <<>>
    /\ entries' = <<>>
    /\ UNCHANGED <<m_enabled, m_additions, m_commands, m_adding,
                   m_runningCommandsChanged, currentCommand, m_additionsMutex>>
    /\ UNCHANGED config
    /\ UNCHANGED <<sonic, dio>>
    /\ KeepTelemetry
    /\ UNCHANGED locals

(* --------------------------- specification ----------------------------- *)

\* The steps of the thread that is inside Run.
Tick ==
    \/ RunButtons
    \/ RunPeriodic
    \/ RunStep
    \/ RunDrain
    \/ RunFill
    \/ RunConfirm
    \/ RunReturn
    \/ Give
    \/ Displace
    \/ Take

Next ==
    \/ \E c \in Commands : AddCommand(c)
    \/ \E enabled \in BOOLEAN : SetEnabled(enabled)
    \/ \E c \in Commands \cup {NULL} : Remove(c)
    \/ RemoveAll
    \/ \E s \in Subsystems \cup {NULL} : RegisterSubsystem(s)
    \/ RunEnter
    \/ \E c \in Commands : Reenter(c)
    \/ Tick

Spec == Init /\ [][Next]_vars

\* A call of Run goes on as long as it can: the thread that called it is
\* scheduled, and every hook that Run calls returns.
FairSpec == Spec /\ WF_vars(Tick)

(* ------------- AddCommand while Run is in progress (lines 46-52) ------- *)

\* ThreadAddCommand that does not take the additions mutex.
ThreadAddCommandUnlocked(c) ==
    /\ pc # "idle"
    /\ m_additions' = Added(m_additions, c)
    /\ UNCHANGED <<m_enabled, m_commands, m_adding, m_runningCommandsChanged,
                   currentCommand, pc, m_additionsMutex, log, entries>>
    /\ UNCHANGED config
    /\ UNCHANGED <<sonic, dio>>
    /\ KeepTelemetry
    /\ UNCHANGED locals

\* Scheduler::AddCommand called while Run is in progress and the additions
\* mutex is free: by another thread, or by a hook that Run calls outside the
\* drain loop (a command's Run or Removed in the step loop, a hook of an
\* admission made by the default loop).  A caller on another thread waits at
\* line 47 while Run holds the mutex.
ThreadAddCommand(c) ==
    /\ pc # "idle"
    /\ m_additionsMutex = "free"
    /\ m_additions' = Added(m_additions, c)
    /\ UNCHANGED <<m_enabled, m_commands, m_adding, m_runningCommandsChanged,
                   currentCommand, pc, m_additionsMutex, log, entries>>
    /\ UNCHANGED config
    /\ UNCHANGED <<sonic, dio>>
    /\ KeepTelemetry
    /\ UNCHANGED locals

\* A hook is in progress that an admission of the drain loop calls: Cancel or
\* Removed of a displaced command, or StartRunning of the admitted one.
InDrainHook ==
    /\ m_additionsMutex = "Run"
    /\ \/ pc \in {"Cancel", "Removed"}
       \/ pc = "drain" /\ log # <<>> /\ log[Len(log)].f = "StartRunning"

\* Scheduler::AddCommand called by a hook of the drain loop: line 47 locks a
\* mutex that the calling thread owns, which is undefined for a non-recursive
\* mutex.  Either the thread waits for itself for ever, or the lock is
\* granted and the command is appended to the vector the drain loop iterates.
HookAddCommand(c) ==
    /\ InDrainHook
    /\ \/ /\ pc' = "AddCommand"
          /\ UNCHANGED m_additions
       \/ /\ m_additions' = Added(m_additions, c)
          /\ UNCHANGED pc
    /\ UNCHANGED <<m_enabled, m_commands, m_adding, m_runningCommandsChanged,
                   currentCommand, m_additionsMutex, log, entries>>
    /\ UNCHANGED config
    /\ UNCHANGED <<sonic, dio>>
    /\ KeepTelemetry
    /\ UNCHANGED locals

NextConcurrent ==
    \/ Next
    \/ \E c \in Commands : ThreadAddCommand(c)
    \/ \E c \in Commands : HookAddCommand(c)

\* The scheduler with AddCommand called at any time.
ThreadSpec == Init /\ [][NextConcurrent]_vars

(* ------------- the table update (InitSendable, lines 228-270) ---------- *)

\* How many ids the dashboard writes into the "Cancel" entry at once.
MaxCancel == 1

\* An id that no command has.
UnknownID == GetID(NumCommands) + 1

\* The values the dashboard writes into the "Cancel" entry.
CancelRequests ==
    {ids \in SUBSET ({GetID(c) : c \in Commands} \cup {UnknownID}) :
        Cardinality(ids) <= MaxCancel}

\* The dashboard asks for commands to be cancelled.
SetCancelEntry(ids) ==
    /\ pc = "idle"
    /\ m_cancelEntry' = ids
    /\ UNCHANGED <<m_enabled, m_additions, m_commands, m_adding, m_runningCommandsChanged,
                   currentCommand, pc, m_additionsMutex, log, entries, canceled,
                   m_namesEntry, m_idsEntry, applied>>
    /\ UNCHANGED config
    /\ UNCHANGED <<sonic, dio>>
    /\ UNCHANGED locals

RECURSIVE InOrder(_)
\* The elements of a std::set in the order a loop from begin() to end() meets them.
InOrder(S) == IF S = {} THEN <<>> ELSE <<Min(S)>> \o InOrder(S \ {Min(S)})

\* Lines 243-251: the running commands whose id is in toCancel.
ToCancel(toCancel) == {c \in m_commands : GetID(c) \in toCancel}

\* Lines 258-265: the names and the ids of the running commands.
RunningNames == [i \in 1..Cardinality(m_commands) |-> GetName(InOrder(m_commands)[i])]

RunningIds == [i \in 1..Cardinality(m_commands) |-> GetID(InOrder(m_commands)[i])]

\* CancelById that leaves the request in the "Cancel" entry.
CancelByIdKeepsRequest ==
    LET toCancel == m_cancelEntry
    IN  /\ log' = [i \in 1..Cardinality(ToCancel(toCancel)) |->
                      Call("Cancel", InOrder(ToCancel(toCancel))[i], 248)]
        /\ canceled' = canceled \cup ToCancel(toCancel)
        /\ UNCHANGED m_cancelEntry
        /\ applied' = IF m_runningCommandsChanged
                      THEN ToCancel(toCancel)
                      ELSE applied \cup ToCancel(toCancel)

\* Lines 235-254: Cancel is called on the running commands named in the
\* "Cancel" entry, in the order of m_commands, and the entry is emptied.
CancelById ==
    LET toCancel == m_cancelEntry
    IN  /\ log' = [i \in 1..Cardinality(ToCancel(toCancel)) |->
                      Call("Cancel", InOrder(ToCancel(toCancel))[i], 248)]
        /\ canceled' = canceled \cup ToCancel(toCancel)
        /\ m_cancelEntry' = {}
        /\ applied' = IF m_runningCommandsChanged
                      THEN ToCancel(toCancel)
                      ELSE applied \cup ToCancel(toCancel)

\* Publish that does not look at m_runningCommandsChanged.
PublishAlways ==
    /\ m_namesEntry' = RunningNames
    /\ m_idsEntry' = RunningIds

\* Lines 256-268: when the running commands have changed, their names and
\* ids are published.
Publish ==
    IF m_runningCommandsChanged
    THEN /\ m_namesEntry' = RunningNames
         /\ m_idsEntry' = RunningIds
    ELSE UNCHANGED <<m_namesEntry, m_idsEntry>>

\* The function that InitSendable gives to SetUpdateTable, called by the
\* dashboard update between two ticks.
UpdateTable ==
    /\ pc = "idle"
    /\ CancelById
    /\ Publish
    /\ UNCHANGED <<m_enabled, m_additions, m_commands, m_adding, m_runningCommandsChanged,
                   currentCommand, pc, m_additionsMutex, entries>>
    /\ UNCHANGED config
    /\ UNCHANGED <<sonic, dio>>
    /\ UNCHANGED locals

\* Every command may be interrupted, and only the first subsystem may have a
\* default command.
InitTelemetry ==
    /\ Init
    /\ interruptible = [c \in Commands |-> TRUE]
    /\ \A s \in Subsystems : s # Begin(Subsystems) => defaultCommand[s] = NULL

NextTelemetry ==
    \/ \E c \in Commands : AddCommand(c)
    \/ \E enabled \in BOOLEAN : SetEnabled(enabled)
    \/ RunEnter
    \/ Tick
    \/ \E ids \in CancelRequests : SetCancelEntry(ids)
    \/ UpdateTable

\* The scheduler with the dashboard.
TelemetrySpec == InitTelemetry /\ [][NextTelemetry]_vars

(* ------------------------------ properties ----------------------------- *)

\* The calls the scheduler makes on commands.
Hooks == {"Cancel", "Removed", "StartRunning"}

\* The index of the last call of ProcessCommandAddition in the log, or 0.
LastEntry ==
    LET calls == {i \in 1..Len(log) : log[i].f = "ProcessCommandAddition"}
    IN  IF calls = {} THEN 0 ELSE CHOOSE i \in calls : \A j \in calls : j <= i

\* The hooks called on command c since ProcessCommandAddition was last entered.
HooksOn(c) ==
    SelectSeq(SubSeq(log, LastEntry + 1, Len(log)),
              LAMBDA e : e.f \in Hooks /\ e.a = c)

\* The hooks called so far by the operation in progress.
HooksCalled(l) == SelectSeq(l, LAMBDA e : e.f \in Hooks)

\* ProcessCommandAddition has just started a command: the last call is StartRunning.
JustStarted == log # <<>> /\ log[Len(log)].f = "StartRunning"

\* The command that the next step of Run passes to ProcessCommandAddition, or NULL.
NextArgument ==
    IF pc = "drain" /\ additionsIter <= Len(m_additions)
    THEN m_additions[additionsIter]
    ELSE IF pc = "fill" /\ subsystemIter # END /\ currentCommand[subsystemIter] = NULL
    THEN defaultCommand[subsystemIter]
    ELSE NULL

\* Command c requires a subsystem whose holder in `current` is not interruptible.
Blocked(c, current) ==
    \E s \in Subsystems :
        /\ s \in GetRequirements(c)
        /\ current[s] # NULL
        /\ interruptible[current[s]] = FALSE

\* C1: mutual exclusion: no two distinct commands of the running set require
\* the same subsystem, so no subsystem is held by more than one command.
C1_MutualExclusion ==
    \A a \in m_commands : \A b \in m_commands :
        a # b => GetRequirements(a) \cap GetRequirements(b) = {}

\* C1 witness: a tick has displaced a command and ends with two commands running.
C1_Witness ==
    /\ pc = "done"
    /\ Cardinality(m_commands) = 2
    /\ \E i \in 1..Len(log) : log[i].f = "Cancel"

\* C2: all-or-nothing admission: when ProcessCommandAddition is given a
\* command of which a requirement is held by a non-interruptible command, the
\* call returns without inserting it, without changing any holder or the
\* running set and without calling any hook.
C2_AllOrNothing ==
    [][(NextArgument # NULL /\ Blocked(NextArgument, currentCommand))
        => /\ m_commands' = m_commands
           /\ currentCommand' = currentCommand
           /\ HooksCalled(log') = HooksCalled(log)
           /\ m_adding' = m_adding
           /\ pc' \in {"drain", "confirm"}]_vars

\* C2 witness: ProcessCommandAddition has returned at once for a command
\* that found one requirement held by a non-interruptible command and
\* another held by an interruptible one.
C2_Witness ==
    /\ pc = "drain"
    /\ AtEntry.arg # NULL
    /\ LastEntry = Len(log)
    /\ \E s \in GetRequirements(AtEntry.arg) : \E t \in GetRequirements(AtEntry.arg) :
           /\ AtEntry.current[s] # NULL
           /\ ~interruptible[AtEntry.current[s]]
           /\ AtEntry.current[t] # NULL
           /\ interruptible[AtEntry.current[t]]
           /\ currentCommand[t] = AtEntry.current[t]

\* C3: displacement: when B has just been admitted and an interruptible A
\* held a subsystem S that B requires, A got Cancel once and then Removed
\* once, B got StartRunning once and after them; A is no longer running, B
\* is, and B holds S.
C3_Displacement ==
    JustStarted =>
        LET B == log[Len(log)].a
        IN  \A S \in GetRequirements(B) :
                LET A == AtEntry.current[S]
                IN  A # NULL =>
                        /\ interruptible[A]
                        /\ HooksOn(A) = <<Call("Cancel", A, 88), Call("Removed", A, 205)>>
                        /\ HooksOn(B) = <<Call("StartRunning", B, 97)>>
                        /\ A \notin m_commands
                        /\ B \in m_commands
                        /\ currentCommand[S] = B

\* C3 witness: a command has just been started after displacing two holders.
C3_Witness ==
    /\ JustStarted
    /\ \E S \in GetRequirements(log[Len(log)].a) : \E T \in GetRequirements(log[Len(log)].a) :
           /\ AtEntry.current[S] # NULL
           /\ AtEntry.current[T] # NULL
           /\ AtEntry.current[S] # AtEntry.current[T]

\* The calls of ProcessCommandAddition of this tick; the i-th goes with entries[i].
Entered == SelectSeq(log, LAMBDA e : e.f = "ProcessCommandAddition")

\* Where the drain loop of this tick passed c to ProcessCommandAddition.
DrainedAt(c) == {i \in 1..Len(Entered) : Entered[i].at = 154 /\ Entered[i].a = c}

\* Command c is in the pending-addition queue.
Queued(c) == \E i \in 1..Len(m_additions) : m_additions[i] = c

\* A is not interruptible, A and B both require S, and the drain loop of this
\* tick has been given A at position i and B at a later position j.
BothQueued(A, B, S, i, j) ==
    /\ A # B
    /\ interruptible[A] = FALSE
    /\ S \in GetRequirements(A)
    /\ S \in GetRequirements(B)
    /\ i \in DrainedAt(A)
    /\ j \in DrainedAt(B)
    /\ i < j

\* After the tick A runs and holds S, and B neither runs nor is queued.
FirstWins(A, B, S) ==
    /\ A \in m_commands
    /\ currentCommand[S] = A
    /\ B \notin m_commands
    /\ ~Queued(B)

\* C4 as stated: whenever a non-interruptible A and then B, both requiring S,
\* were queued for one Run, after that Run A runs and holds S and B is
\* neither running nor queued.
C4_AsStated ==
    pc = "done" =>
        \A A \in Commands : \A B \in Commands : \A S \in Subsystems :
            (\E i \in DrainedAt(A) : \E j \in DrainedAt(B) : BothQueued(A, B, S, i, j))
                => FirstWins(A, B, S)

\* C4 amended: the same, provided no requirement of A was held by a
\* non-interruptible command when the drain loop reached A; and a command
\* enters the running set only at the end of an admission that the drain loop
\* made for a queued command or the default loop made for the default command
\* of a subsystem without holder.
C4_RejectedIsDropped ==
    /\ [](pc = "done" =>
            \A A \in Commands : \A B \in Commands : \A S \in Subsystems :
                (\E i \in DrainedAt(A) : \E j \in DrainedAt(B) :
                    /\ BothQueued(A, B, S, i, j)
                    /\ ~Blocked(A, entries[i].current))
                    => FirstWins(A, B, S))
    /\ [][\A B \in Commands :
            (B \notin m_commands /\ B \in m_commands')
                => /\ AtEntry.arg = B
                   /\ \/ Entered[Len(Entered)].at = 154 /\ Queued(B)
                      \/ /\ Entered[Len(Entered)].at = 164
                         /\ \E s \in m_subsystems :
                                defaultCommand[s] = B /\ AtEntry.current[s] = NULL]_vars

\* C4 witness: a tick ends in which the drain loop admitted a non-interruptible
\* A and then rejected B for a subsystem both require.
C4_Witness ==
    /\ pc = "done"
    /\ \E A \in Commands : \E B \in Commands : \E S \in Subsystems :
           /\ \E i \in DrainedAt(A) : \E j \in DrainedAt(B) :
                  /\ BothQueued(A, B, S, i, j)
                  /\ A \notin entries[i].commands
                  /\ B \notin entries[j].commands
           /\ FirstWins(A, B, S)

\* C5: idempotent removal: Remove of a command that is not running changes
\* nothing and calls no hook; Remove of a running command takes it out of the
\* running set and calls Removed on it once, so that a second Remove of the
\* same command is of the first kind.
C5_IdempotentRemoval ==
    [][\A c \in Commands :
        Remove(c) =>
            IF c \in m_commands
            THEN /\ c \notin m_commands'
                 /\ log' = <<Call("Removed", c, 205)>>
            ELSE /\ m_commands' = m_commands
                 /\ currentCommand' = currentCommand
                 /\ m_additions' = m_additions
                 /\ m_runningCommandsChanged' = m_runningCommandsChanged
                 /\ log' = <<>>]_vars

\* C5 witness: a command has been removed with one call of Removed while
\* other commands hold subsystems it requires or run besides it; the next
\* Remove of it finds it not running.
C5_Witness ==
    /\ pc = "idle"
    /\ \E c \in Commands :
           /\ log = <<Call("Removed", c, 205)>>
           /\ c \notin m_commands
           /\ m_commands # {}

\* The state in which the call of ProcessCommandAddition at log[i] was entered.
EntryOf(i) ==
    entries[Cardinality({k \in 1..i : log[k].f = "ProcessCommandAddition"})]

\* Where in the log the default loop of this tick found S without holder and
\* called ProcessCommandAddition for its default command.
FilledAt(S) ==
    {i \in 1..Len(log) :
        /\ log[i].f = "ProcessCommandAddition"
        /\ log[i].at = 164
        /\ \E j \in (i + 1)..Len(log) :
               /\ log[j] = Call("ConfirmCommand", S, 166)
               /\ \A k \in (i + 1)..(j - 1) : log[k].f # "ConfirmCommand"}

\* The default loop is in the turn of subsystemIter and found it without holder.
FoundIdle ==
    /\ LastEntry # 0
    /\ log[LastEntry].at = 164
    /\ \A k \in LastEntry..Len(log) : log[k].f # "ConfirmCommand"

\* D is running and holds S.
Holds(D, S) == D \in m_commands /\ currentCommand[S] = D

Displaced ==
    {AtEntry.current[s] : s \in GetRequirements(AtEntry.arg)} \ {NULL}

\* C7: re-entrant admission: ProcessCommandAddition entered for a command
\* from a Cancel or Removed hook while m_adding is set reports
\* IncompatibleState and changes nothing else: the command is not admitted,
\* the running set and the holders stay as the outer admission has them; and
\* the outer admission ends as it would have: its command is started, runs
\* and holds its requirements, the holders it displaced are out, every other
\* command and holder is as it was at entry, and m_adding is reset.
C7_ReentrantAdmission ==
    /\ [][\A c \in Commands :
            Reenter(c) =>
                /\ m_adding
                /\ log' = Append(log, Call("IncompatibleState", NULL, 64))
                /\ m_commands' = m_commands
                /\ currentCommand' = currentCommand
                /\ m_adding' = m_adding
                /\ m_additions' = m_additions
                /\ <<pc', command', iter'>> = <<pc, command, iter>>]_vars
    /\ [](JustStarted =>
            LET B == log[Len(log)].a
            IN  /\ B = AtEntry.arg
                /\ ~m_adding
                /\ m_commands = (AtEntry.commands \ Displaced) \cup {B}
                /\ \A s \in Subsystems :
                       currentCommand[s] =
                           IF s \in GetRequirements(B) THEN B
                           ELSE IF AtEntry.current[s] \in Displaced THEN NULL
                           ELSE AtEntry.current[s])

\* C7 witness: an admission has just started its command after a hook of a
\* displaced command tried to start another command.
C7_Witness ==
    /\ JustStarted
    /\ \E i \in (LastEntry + 1)..Len(log) : log[i].f = "IncompatibleState"
    /\ Displaced # {}

\* The part of the state that Run works on.
Scheduled == <<m_additions, m_commands, currentCommand, m_adding, m_runningCommandsChanged>>

\* C8 as stated: a Run of a disabled scheduler still calls every registered
\* subsystem's Periodic and drains the queue.
C8_AsStated ==
    (pc = "done" /\ ~m_enabled) =>
        /\ \A s \in m_subsystems : \E i \in 1..Len(log) : log[i] = Call("Periodic", s, 132)
        /\ m_additions = <<>>

\* C8 amended: a Run of a disabled scheduler returns at once: it makes no
\* call (no button, no Periodic, no command's Run, no admission, no
\* ConfirmCommand) and leaves queue, running set and holders as they were.
C8_DisabledRunDoesNothing ==
    /\ [][(pc = "idle" /\ pc' # "idle" /\ ~m_enabled)
            => /\ pc' = "done"
               /\ log' = <<>>
               /\ Scheduled' = Scheduled]_vars
    /\ [][(pc = "done" /\ ~m_enabled)
            => /\ pc' = "idle"
               /\ log' = <<>>
               /\ Scheduled' = Scheduled]_vars

\* C8 witness: a Run of a disabled scheduler is at its end with a command
\* queued, a command running and an idle subsystem that has a default command.
C8_Witness ==
    /\ pc = "done"
    /\ ~m_enabled
    /\ m_additions # <<>>
    /\ m_commands # {}
    /\ \E s \in m_subsystems : currentCommand[s] = NULL /\ defaultCommand[s] # NULL

\* The loop of Run that makes call e itself: 1 buttons, 2 Periodic, 3 step,
\* 4 drain, 5 default; 0 for a call made inside ProcessCommandAddition or Remove.
Phase(e) ==
    CASE e.f = "Execute" -> 1
      [] e.f = "Periodic" -> 2
      [] e.f = "Run" -> 3
      [] e.f = "ProcessCommandAddition" /\ e.at = 154 -> 4
      [] e.f = "ProcessCommandAddition" /\ e.at = 164 -> 5
      [] e.f = "ConfirmCommand" -> 5
      [] OTHER -> 0

\* The loop Run is in; 6 after the last, 0 outside Run.
Where ==
    CASE pc = "buttons" -> 1
      [] pc = "periodic" -> 2
      [] pc = "step" -> 3
      [] pc = "drain" -> 4
      [] pc \in {"fill", "confirm"} -> 5
      [] pc \in {"give", "Cancel", "Removed"} -> IF additionsIter # 0 THEN 4 ELSE 5
      [] pc = "done" -> 6
      [] OTHER -> 0

\* Call e is in the log before position i.
Before(i, e) == \E k \in 1..(i - 1) : log[k] = e

\* C9: phase order in an enabled Run: the calls Run makes are in the order
\* buttons, Periodic, step, drain, default, and nothing of a later loop has
\* been called while Run is in an earlier one; after the button loop every
\* button was polled, after the Periodic loop every subsystem had Periodic,
\* when the drain loop enters an admission every running command was stepped
\* (or started in this tick), and the default loop runs with the queue empty.
C9_PhaseOrder ==
    (m_enabled /\ pc # "idle") =>
        /\ \A i \in 1..Len(log) : \A j \in 1..Len(log) :
               (i < j /\ Phase(log[i]) > 0 /\ Phase(log[j]) > 0)
                   => Phase(log[i]) <= Phase(log[j])
        /\ \A i \in 1..Len(log) : Phase(log[i]) <= Where
        /\ Where > 1 =>
               \A b \in 1..Len(m_buttons) : Before(Len(log) + 1, Call("Execute", m_buttons[b], 124))
        /\ Where > 2 =>
               \A s \in m_subsystems : Before(Len(log) + 1, Call("Periodic", s, 132))
        /\ \A i \in 1..Len(log) :
               Phase(log[i]) = 3 =>
                   \A s \in m_subsystems : Before(i, Call("Periodic", s, 132))
        /\ \A i \in 1..Len(log) :
               Phase(log[i]) = 4 =>
                   \A c \in EntryOf(i).commands :
                       Before(i, Call("Run", c, 143)) \/ Before(i, Call("StartRunning", c, 97))
        /\ Where > 4 => m_additions = <<>>
        /\ Where > 5 =>
               \A s \in m_subsystems : Before(Len(log) + 1, Call("ConfirmCommand", s, 166))

\* C9 witness: an enabled Run is at its end after calls in each of its five
\* loops, with a command removed in the step loop, one started by the drain
\* loop and one started by the default loop.
C9_Witness ==
    /\ pc = "done"
    /\ m_enabled
    /\ \A p \in 1..5 : \E i \in 1..Len(log) : Phase(log[i]) = p
    /\ \E i \in 1..Len(log) : \E j \in 1..Len(log) : \E k \in 1..Len(log) :
           /\ i < j /\ j < k
           /\ log[i].f = "Removed" /\ log[i].at = 205
           /\ Phase(log[i - 1]) = 3
           /\ Phase(log[j]) = 4 /\ log[j + 1].f = "StartRunning"
           /\ Phase(log[k]) = 5 /\ log[k].f = "ProcessCommandAddition"
           /\ k < Len(log) /\ log[k + 1].f = "StartRunning"

\* An enabled Run has made every call of its loops.
AllPhases ==
    /\ \A b \in 1..Len(m_buttons) : \E i \in 1..Len(log) : log[i] = Call("Execute", m_buttons[b], 124)
    /\ \A s \in m_subsystems : \E i \in 1..Len(log) : log[i] = Call("Periodic", s, 132)
    /\ m_additions = <<>>
    /\ \A s \in m_subsystems : \E i \in 1..Len(log) : log[i] = Call("ConfirmCommand", s, 166)

Drained ==
    LET calls == SelectSeq(log, LAMBDA e : e.f = "ProcessCommandAddition" /\ e.at = 154)
    IN  [i \in 1..Len(calls) |-> calls[i].a]

\* C11 as stated: AddCommand called by a hook that Run calls returns without
\* waiting for the additions mutex: the thread inside Run is never at line 47
\* of AddCommand waiting for the mutex that Run holds.
C11_AsStated == ~(pc = "AddCommand" /\ m_additionsMutex = "Run")

\* C12: append and drain are mutually exclusive: apart from a call made by a
\* hook of the drain loop itself, the queue changes only by the append of a
\* command that is not queued, made while the additions mutex is free, or by
\* the clear at the end of the drain loop, made under the mutex when the loop
\* has passed exactly the queued commands, each once and in order, to
\* ProcessCommandAddition.
C12_AppendDrainExclusive ==
    [][(m_additions' # m_additions /\ ~(\E c \in Commands : HookAddCommand(c)))
        => \/ /\ m_additionsMutex = "free"
              /\ \E c \in Commands :
                     /\ ~Queued(c)
                     /\ m_additions' = Append(m_additions, c)
           \/ /\ pc = "drain"
              /\ m_additionsMutex = "Run"
              /\ m_additionsMutex' = "free"
              /\ m_additions' = <<>>
              /\ Drained = m_additions]_vars

\* C12 witness: a Run is at its end whose drain loop passed a command that
\* was added during that Run, and a command added after the drain is queued
\* for the next one.
C12_Witness ==
    /\ pc = "done"
    /\ Drained # <<>>
    /\ \E i \in 1..Len(log) : \E j \in 1..Len(log) :
           /\ i < j
           /\ log[i].f = "Run"
           /\ log[j] = Call("ProcessCommandAddition", log[i].a, 154)
           /\ \E k \in 1..Len(log) : k > i /\ k < j /\ log[k] = Call("Removed", log[i].a, 205)
    /\ m_additions # <<>>

\* The update publishes the lists in this step.
Publishes == UpdateTable /\ m_runningCommandsChanged

\* The values in a list.
Range(seq) == {seq[i] : i \in 1..Len(seq)}

ChangedInRun == \E i \in 1..Len(log) : log[i].f \in {"StartRunning", "Removed"}

\* C14 as stated: at the end of a Run m_runningCommandsChanged, on which the
\* next update decides whether to publish, is true exactly when a command
\* was admitted, completed or displaced during that Run.
C14_AsStated == pc = "done" => (m_runningCommandsChanged <=> ChangedInRun)

\* C14 amended: at the end of an enabled Run m_runningCommandsChanged is
\* true exactly when a command was admitted, completed or displaced during
\* it; a Run of a disabled scheduler leaves it as it was; an update publishes
\* exactly when it is true, and then one name and one id for each running
\* command, at the same position.
C14_Publish ==
    /\ []((pc = "done" /\ m_enabled) => (m_runningCommandsChanged <=> ChangedInRun))
    /\ [][(pc = "idle" /\ pc' = "done")
            => m_runningCommandsChanged' = m_runningCommandsChanged]_vars
    /\ [][UpdateTable =>
            IF m_runningCommandsChanged
            THEN /\ Len(m_namesEntry') = Cardinality(m_commands)
                 /\ Len(m_idsEntry') = Cardinality(m_commands)
                 /\ \A c \in m_commands : \E i \in 1..Len(m_idsEntry') :
                        /\ m_idsEntry'[i] = GetID(c)
                        /\ m_namesEntry'[i] = GetName(c)
            ELSE /\ m_namesEntry' = m_namesEntry
                 /\ m_idsEntry' = m_idsEntry]_vars

\* C14 witness: two commands with the same name are published after a Run in
\* which one command was displaced, and the lists replace shorter ones.
C14_Witness ==
    /\ pc = "idle"
    /\ m_runningCommandsChanged
    /\ Len(m_idsEntry) = 2
    /\ m_namesEntry[1] = m_namesEntry[2]
    /\ Range(m_idsEntry) = {GetID(c) : c \in m_commands}

\* The last hook called on command c by the operation in progress, or "none".
LastHook(c) ==
    LET on == SelectSeq(log, LAMBDA e : e.f \in Hooks /\ e.a = c)
    IN  IF on = <<>> THEN "none" ELSE on[Len(on)].f

\* C15 as stated: a command that received Removed is never started again:
\* no call of Removed on a command is followed by the StartRunning of an
\* admission that inserts the same command.
C15_AsStated ==
    \A i \in 1..Len(log) : \A j \in 1..Len(log) :
        (i < j /\ log[i].f = "Removed") => log[j] # Call("StartRunning", log[i].a, 97)

\* C15 amended: a command that received Removed is out of the running set,
\* and holds no subsystem until an admission of it begins; and a command enters
\* the running set only at the end of an admission, which calls StartRunning
\* on it and has given it every subsystem it requires.
C15_Readmission ==
    /\ [](\A c \in Commands :
            LastHook(c) = "Removed" =>
                /\ c \notin m_commands
                /\ (m_adding /\ command = c) \/ \A s \in Subsystems : currentCommand[s] # c)
    /\ [][\A c \in Commands :
            (c \notin m_commands /\ c \in m_commands')
                => /\ log' = Append(log, Call("StartRunning", c, 97))
                   /\ \A s \in GetRequirements(c) : currentCommand'[s] = c]_vars

\* C15 witness: a command that was removed in this tick, when its step
\* returned false or when it was displaced, has been started again and runs.
C15_Witness ==
    \E c \in m_commands : \E i \in 1..Len(log) : \E j \in 1..Len(log) :
        /\ i < j
        /\ log[i] = Call("Removed", c, 205)
        /\ log[j] = Call("StartRunning", c, 97)
        /\ LastHook(c) = "StartRunning"

\* The default loop is about to call ProcessCommandAddition(nullptr): the
\* subsystem it is at has no holder and no default command.
NullDefault ==
    /\ pc = "fill"
    /\ subsystemIter # END
    /\ currentCommand[subsystemIter] = NULL
    /\ defaultCommand[subsystemIter] = NULL

\* C16: null arguments: Remove(nullptr) and RegisterSubsystem(nullptr)
\* report NullParameter and leave queue, running set, holders, flags and the
\* registered subsystems as they are; ProcessCommandAddition(nullptr), which
\* the default loop calls for an idle subsystem without default command,
\* changes none of them and calls no hook, and Run goes on to ConfirmCommand.
C16_NullArguments ==
    /\ [][Remove(NULL) =>
            /\ log' = <<Call("NullParameter", NULL, 193)>>
            /\ Scheduled' = Scheduled
            /\ m_subsystems' = m_subsystems]_vars
    /\ [][RegisterSubsystem(NULL) =>
            /\ log' = <<Call("NullParameter", NULL, 180)>>
            /\ Scheduled' = Scheduled
            /\ m_subsystems' = m_subsystems]_vars
    /\ [][NullDefault =>
            /\ Scheduled' = Scheduled
            /\ m_subsystems' = m_subsystems
            /\ log' = Append(log, Call("ProcessCommandAddition", NULL, 164))
            /\ pc' = "confirm"]_vars

\* C16 witness: RegisterSubsystem(nullptr) has reported its error while a
\* command runs and another is queued.
C16_Witness ==
    /\ pc = "idle"
    /\ log = <<Call("NullParameter", NULL, 180)>>
    /\ m_commands # {}
    /\ m_additions # <<>>

\* C17: a step that removes commands from the running set inserts none,
\* clears the holder of exactly the subsystems that a removed command held
\* and leaves every other holder, also that of a subsystem which a removed
\* command requires but did not hold; it queues nothing; and a subsystem
\* without holder gets one only from an admission in progress, which the
\* drain loop or the default loop has entered.
C17_RemoveFrame ==
    /\ [][(m_commands \ m_commands' # {}) =>
            /\ m_commands' \subseteq m_commands
            /\ \A s \in Subsystems :
                   currentCommand'[s] =
                       IF currentCommand[s] \in m_commands \ m_commands'
                       THEN NULL
                       ELSE currentCommand[s]
            /\ m_additions' = m_additions]_vars
    /\ [][\A s \in Subsystems :
            (currentCommand[s] = NULL /\ currentCommand'[s] # NULL)
                => /\ pc \in {"give", "Removed"}
                   /\ m_adding
                   /\ currentCommand'[s] = command
                   /\ LastEntry # 0
                   /\ log[LastEntry].at \in {154, 164}]_vars

\* C17 witness: Remove has taken a command out while another command holds
\* a subsystem, and a subsystem the removed command held is without holder
\* although it has a default command.
C17_Witness ==
    /\ pc = "idle"
    /\ \E c \in Commands :
           /\ log = <<Call("Removed", c, 205)>>
           /\ \E s \in Subsystems : currentCommand[s] \notin {NULL, c}
           /\ \E s \in GetRequirements(c) :
                  currentCommand[s] = NULL /\ defaultCommand[s] # NULL

\* Run is about to pass a command that is already running to
\* ProcessCommandAddition, from the drain loop or from the default loop.
Readdition == NextArgument # NULL /\ NextArgument \in m_commands

\* C18: admitting a command that is already in the running set changes
\* nothing: the running set, the holders, m_adding and the changed flag are
\* as before, no command is cancelled, and the call makes no call of its own
\* (no Cancel, no Removed, no StartRunning, no error); Run goes on with the
\* next queued command or with ConfirmCommand.
C18_IdempotentReaddition ==
    [][Readdition =>
          /\ m_commands' = m_commands
          /\ currentCommand' = currentCommand
          /\ m_adding' = m_adding
          /\ m_runningCommandsChanged' = m_runningCommandsChanged
          /\ canceled' = canceled
          /\ m_additions' = m_additions
          /\ log' = Append(log, Call("ProcessCommandAddition", NextArgument,
                                     IF pc = "drain" THEN 154 ELSE 164))
          /\ pc' = (IF pc = "drain" THEN "drain" ELSE "confirm")]_vars

\* C18 witness: the drain loop has just passed a command that was running
\* and held a subsystem when it was passed, with the changed flag still unset,
\* and has gone on to the next position of the queue.
C18_Witness ==
    /\ pc = "drain"
    /\ LastEntry = Len(log)
    /\ AtEntry.arg # NULL
    /\ AtEntry.arg \in AtEntry.commands
    /\ \E s \in Subsystems : AtEntry.current[s] = AtEntry.arg
    /\ ~m_runningCommandsChanged
    /\ additionsIter > 1

\* The commands whose Run has been called in this Run of the scheduler.
Stepped == {log[i].a : i \in {j \in 1..Len(log) : log[j].f = "Run"}}

\* The commands removed by the step loop of this Run so far.
Finished == {log[i].a : i \in {j \in 1..Len(log) : log[j].f = "Removed" /\ log[j].at = 205}}

\* The commands the step loop has not reached yet.
ToStep == IF commandIter = END THEN {} ELSE {c \in m_commands : c >= commandIter}

\* C19: in the step loop every running command is run once, in order: the
\* loop removes only the command it has just run, together with the call of
\* Removed, the clearing of its holders and the setting of the changed flag,
\* or keeps it with none of these (a cancelled command is always removed);
\* the commands not yet reached stay in the running set and the iterator goes
\* to the least of them, so that when the loop ends every command that was
\* running at its start (those still running and those removed) has been run
\* exactly once.
C19_StepPhase ==
    /\ [](pc = "step" =>
            /\ \A i, j \in 1..Len(log) :
                   (i < j /\ log[i].f = "Run" /\ log[j].f = "Run") => log[i].a < log[j].a
            /\ Stepped = (m_commands \cup Finished) \ ToStep
            /\ Finished \cap m_commands = {}
            /\ \A i \in 1..Len(log) :
                   (log[i].f = "Removed") =>
                       /\ i > 1
                       /\ log[i - 1] = Call("Run", log[i].a, 143)
                       /\ log[i].at = 205)
    /\ [][(pc = "step" /\ commandIter # END) =>
            LET c == commandIter
                removed == Append(Append(log, Call("Run", c, 143)), Call("Removed", c, 205))
            IN  /\ c \in m_commands
                /\ pc' = "step"
                /\ commandIter' = Succ(m_commands \ {c}, c)
                /\ ToStep' = ToStep \ {c}
                /\ \/ /\ c \notin canceled
                      /\ log' = Append(log, Call("Run", c, 143))
                      /\ m_commands' = m_commands
                      /\ currentCommand' = currentCommand
                      /\ m_runningCommandsChanged' = m_runningCommandsChanged
                   \/ /\ log' = removed
                      /\ m_commands' = m_commands \ {c}
                      /\ \A s \in Subsystems :
                             currentCommand'[s] = IF currentCommand[s] = c THEN NULL
                                                  ELSE currentCommand[s]
                      /\ \A s \in Subsystems : currentCommand'[s] # c
                      /\ m_runningCommandsChanged']_vars
    /\ [][(pc = "step" /\ commandIter = END) =>
            /\ pc' = "drain"
            /\ Stepped = m_commands \cup Finished
            /\ UNCHANGED <<m_commands, currentCommand, log, m_runningCommandsChanged>>]_vars

\* C19 witness: the step loop has ended after running two commands, of
\* which the first was removed and the one after it, run next, stays.
C19_Witness ==
    /\ pc = "step"
    /\ commandIter = END
    /\ \E a, b \in Stepped :
           /\ a < b
           /\ Stepped = {a, b}
           /\ Finished = {a}
           /\ m_commands = {b}
           /\ log[Len(log)] = Call("Run", b, 143)

\* How many queued commands the drain loop has passed to ProcessCommandAddition.
Passed == IF pc = "drain" THEN additionsIter - 1 ELSE additionsIter

\* C20: AddCommand puts a command that is not queued at the end of the queue
\* and leaves the queue alone otherwise; the drain loop leaves the queue as it
\* is while it passes the queued commands, which are all different, from the
\* first on to ProcessCommandAddition, one call for each; when the loop ends
\* it has passed the whole queue in that order, whatever the calls did, and
\* clears it, and the queue is empty for the rest of that enabled Run.
C20_AdditionDrain ==
    /\ [][\A c \in Commands :
            AddCommand(c) =>
                m_additions' = IF Queued(c) THEN m_additions
                               ELSE [i \in 1..(Len(m_additions) + 1) |->
                                        IF i <= Len(m_additions) THEN m_additions[i] ELSE c]]_vars
    /\ [](Where = 4 =>
            /\ Passed <= Len(m_additions)
            /\ Drained = SubSeq(m_additions, 1, Passed)
            /\ \A i, j \in 1..Len(m_additions) : m_additions[i] = m_additions[j] => i = j)
    /\ [][(Where = 4 /\ Where' = 4) => m_additions' = m_additions]_vars
    /\ [][(Where = 4 /\ Where' # 4) =>
            /\ Drained = m_additions
            /\ m_additions' = <<>>
            /\ Where' = 5
            /\ log' = log]_vars
    /\ []((m_enabled /\ Where > 4) => m_additions = <<>>)

\* C20 witness: the drain loop is at its end after passing three queued
\* commands that were not enqueued in the order of the running set: one was
\* already running, one was rejected and one was started.
C20_Witness ==
    /\ pc = "drain"
    /\ Len(m_additions) = 3
    /\ additionsIter = 4
    /\ Drained = m_additions
    /\ m_additions[1] > m_additions[2]
    /\ Len(entries) = 3
    /\ \E i, j, k \in 1..3 :
           /\ entries[i].arg \in entries[i].commands
           /\ entries[j].arg \notin entries[j].commands
           /\ Blocked(entries[j].arg, entries[j].current)
           /\ entries[j].arg \notin m_commands
           /\ entries[k].arg \notin entries[k].commands
           /\ \E n \in 1..Len(log) : log[n] = Call("StartRunning", entries[k].arg, 97)

\* The calls that a step adds to the log: an operation called between two
\* ticks starts a log of its own, a step of Run extends the log of the tick.
NewCalls == IF pc = "idle" THEN log' ELSE SubSeq(log', Len(log) + 1, Len(log'))

\* The command whose Removed was called last.
LastRemoved ==
    LET calls == {i \in 1..Len(log) : log[i].f = "Removed"}
    IN  IF calls = {} THEN NULL
        ELSE log[CHOOSE i \in calls : \A j \in calls : j <= i].a

\* Command c is out of the running set and holds no subsystem.
Gone(c, commands, current) ==
    /\ c \notin commands
    /\ \A s \in Subsystems : current[s] # c

\* C21: Removed is called after the removal is complete: a step that calls
\* Removed on a command leaves it out of the running set and holder of no
\* subsystem, and while the Removed hook of a displaced command is in
\* progress inside an admission, whatever the hook tries to start, that
\* command is out of the running set and holds none of its requirements.
C21_RemovedAfterRemoval ==
    /\ [][\A i \in 1..Len(NewCalls) :
            NewCalls[i].f = "Removed" => Gone(NewCalls[i].a, m_commands', currentCommand')]_vars
    /\ [](pc = "Removed" =>
            /\ LastRemoved # NULL
            /\ Gone(LastRemoved, m_commands, currentCommand)
            /\ currentCommand[iter] = NULL)

\* C21 witness: the Removed hook of a displaced command that held two
\* subsystems is in progress and has tried to start a command.
C21_Witness ==
    /\ pc = "Removed"
    /\ log[Len(log)].f = "IncompatibleState"
    /\ Cardinality({s \in Subsystems : AtEntry.current[s] = LastRemoved}) = 2
    /\ LastRemoved \in AtEntry.commands

(* ---------- registration: AddButton, ResetAll (lines 54-57, 214-226) --- *)

\* AddButton that puts the button in front of those registered before.
AddButtonInFront(b) ==
    /\ pc = "idle"
    /\ Len(m_buttons) < MaxButtons
    /\ m_buttons' = <<b>> \o m_buttons
    /\ log' = <<>>
    /\ UNCHANGED <<m_enabled, m_additions, m_commands, m_adding, m_runningCommandsChanged,
                   currentCommand, pc, m_additionsMutex, entries>>
    /\ UNCHANGED <<defaultCommand, interruptible, m_subsystems, registered>>
    /\ UNCHANGED <<sonic, dio>>
    /\ UNCHANGED locals
    /\ KeepTelemetry

\* Lines 54-57: the button goes to the end of m_buttons, registered before or not.
AddButton(b) ==
    /\ pc = "idle"
    /\ Len(m_buttons) < MaxButtons
    /\ m_buttons' = Append(m_buttons, b)
    /\ log' = <<>>
    /\ UNCHANGED <<m_enabled, m_additions, m_commands, m_adding, m_runningCommandsChanged,
                   currentCommand, pc, m_additionsMutex, entries>>
    /\ UNCHANGED <<defaultCommand, interruptible, m_subsystems, registered>>
    /\ UNCHANGED <<sonic, dio>>
    /\ UNCHANGED locals
    /\ KeepTelemetry

\* ResetAll that does not remove the running commands first.
ResetAllWithoutRemoveAll ==
    /\ pc = "idle"
    /\ m_commands' = {}
    /\ UNCHANGED currentCommand
    /\ log' = <<>>
    /\ m_subsystems' = {}
    /\ registered' = <<>>
    /\ m_buttons' = <<>>
    /\ m_additions' = <<>>
    /\ UNCHANGED <<m_enabled, m_adding, m_runningCommandsChanged, pc, m_additionsMutex,
                   entries>>
    /\ UNCHANGED <<defaultCommand, interruptible>>
    /\ UNCHANGED <<sonic, dio>>
    /\ UNCHANGED locals
    /\ KeepTelemetry

\* Lines 217-226: RemoveAll, then the containers are cleared. The three
\* entries become unbound handles; what the table holds is not touched.
ResetAll ==
    /\ pc = "idle"
    /\ LET st == RemoveAllFrom([State EXCEPT !.log = <<>>])
       IN  /\ m_commands' = {}
           /\ currentCommand' = st.current
           /\ log' = st.log
    /\ m_subsystems' = {}
    /\ registered' = <<>>
    /\ m_buttons' = <<>>
    /\ m_additions' = <<>>
    /\ UNCHANGED <<m_enabled, m_adding, m_runningCommandsChanged, pc, m_additionsMutex,
                   entries>>
    /\ UNCHANGED <<defaultCommand, interruptible>>
    /\ UNCHANGED <<sonic, dio>>
    /\ UNCHANGED locals
    /\ KeepTelemetry

\* A program whose commands can all be interrupted.
InitRegistration ==
    /\ Init
    /\ interruptible = [c \in Commands |-> TRUE]

NextRegistration ==
    \/ \E b \in Buttons : AddButton(b)
    \/ \E s \in Subsystems \cup {NULL} : RegisterSubsystem(s)
    \/ \E enabled \in BOOLEAN : SetEnabled(enabled)
    \/ RemoveAll
    \/ ResetAll
    \/ RunEnter
    \/ Tick

\* The scheduler with buttons and subsystems registered, and the
\* registrations reset, while the program runs.
RegistrationSpec == InitRegistration /\ [][NextRegistration]_vars

\* The buttons on which this Run has called Execute, in the order of the calls.
Polled ==
    LET calls == SelectSeq(log, LAMBDA e : e.f = "Execute")
    IN  [i \in 1..Len(calls) |-> calls[i].a]

\* seq from its last element to its first
Reverse(seq) == [i \in 1..Len(seq) |-> seq[Len(seq) + 1 - i]]

\* C22 as stated: after the button loop of an enabled Run every registered
\* button has had exactly one call of Execute.
C22_AsStated ==
    (m_enabled /\ Where > 1) =>
        \A b \in Range(m_buttons) :
            Cardinality({i \in 1..Len(log) : log[i] = Call("Execute", b, 124)}) = 1

\* C22 amended: AddButton puts the button at the end of the list whether it is
\* in the list or not; an enabled Run calls Execute once for each
\* registration, from the last registration to the first, so a button
\* registered twice is executed twice; a disabled Run calls no Execute.
C22_TriggerPolling ==
    /\ [][\A b \in Buttons : AddButton(b) => m_buttons' = Append(m_buttons, b)]_vars
    /\ [](pc = "buttons" =>
            Polled = Reverse(SubSeq(m_buttons, rButtonIter + 1, Len(m_buttons))))
    /\ []((m_enabled /\ Where > 1) => Polled = Reverse(m_buttons))
    /\ []((~m_enabled /\ pc # "idle") => Polled = <<>>)

\* C22 witness: an enabled Run is at its end with three registrations, the
\* first and the last of the same button, and has polled them last to first.
C22_Witness ==
    /\ pc = "done"
    /\ m_enabled
    /\ Len(m_buttons) = 3
    /\ m_buttons[1] = m_buttons[3]
    /\ m_buttons[1] # m_buttons[2]
    /\ Polled = <<m_buttons[3], m_buttons[2], m_buttons[1]>>

\* The subsystems on which this Run has called Periodic, in the order of the calls.
Periodics ==
    LET calls == SelectSeq(log, LAMBDA e : e.f = "Periodic")
    IN  [i \in 1..Len(calls) |-> calls[i].a]

\* C23 as stated, for the enabled Runs alone: at the end of the Run, Periodic
\* has been called once on every registered subsystem, in the order of
\* registration.
C23_AsStated == (pc = "done" /\ m_enabled) => Periodics = registered

\* C23 amended: m_subsystems holds each registered subsystem once, however
\* often it was registered; an enabled Run calls Periodic once on each of
\* them, with or without current command, in the order of the set (the order
\* of the pointers), whatever the order of registration; a disabled Run
\* calls no Periodic.
C23_SubsystemPeriodic ==
    /\ [](/\ Range(registered) = m_subsystems
          /\ Len(registered) = Cardinality(m_subsystems))
    /\ [](pc = "periodic" =>
            Periodics = InOrder({s \in m_subsystems : subsystemIter = END \/ s < subsystemIter}))
    /\ []((m_enabled /\ Where > 2) => Periodics = InOrder(m_subsystems))
    /\ []((~m_enabled /\ pc # "idle") => Periodics = <<>>)

\* C23 witness: an enabled Run is at its end in which the subsystem
\* registered last had its Periodic first; one of the two had a current
\* command during the Periodic loop and the other had none.
C23_Witness ==
    /\ pc = "done"
    /\ m_enabled
    /\ Len(registered) = 2
    /\ registered[1] > registered[2]
    /\ Periodics = <<registered[2], registered[1]>>
    /\ \E c \in m_commands :
           /\ \E i \in 1..Len(log) : log[i] = Call("Run", c, 143)
           /\ \E s \in m_subsystems : currentCommand[s] = c
    /\ \E s \in m_subsystems : currentCommand[s] = NULL
    /\ \A i \in 1..Len(log) : log[i].f # "Removed"

\* The subsystems on which this Run has called ConfirmCommand, in the order
\* of the calls.
Confirmed ==
    LET calls == SelectSeq(log, LAMBDA e : e.f = "ConfirmCommand")
    IN  [i \in 1..Len(calls) |-> calls[i].a]

\* The hooks called since ProcessCommandAddition was last entered.
HooksSinceEntry == HooksCalled(SubSeq(log, LastEntry + 1, Len(log)))

\* C24 as stated, the count of ConfirmCommand: at the end of every Run
\* ConfirmCommand has been called once on each registered subsystem.
C24_AsStated ==
    pc = "done" =>
        \A s \in m_subsystems :
            Cardinality({i \in 1..Len(log) : log[i] = Call("ConfirmCommand", s, 166)}) = 1

\* C24 amended: when the default loop found S without holder and its default
\* command D requires another subsystem T with holder H, then by the time
\* ConfirmCommand is called on S: if H is not interruptible, D was rejected
\* with no hook called, S is still without holder and H runs and holds T; if
\* H is interruptible, Cancel and then Removed were called on H, D was
\* started, H is out and D holds S and T. An enabled Run calls ConfirmCommand
\* once on each registered subsystem, in the order of the set, each call
\* after the admission attempt for that subsystem; a disabled Run calls none.
C24_DefaultNoPrivilege ==
    /\ [](pc = "confirm" /\ FoundIdle =>
            LET S == subsystemIter
                D == defaultCommand[subsystemIter]
            IN  \A T \in Subsystems :
                    LET H == AtEntry.current[T]
                    IN  (D # NULL /\ T # S /\ T \in GetRequirements(D) /\ H # NULL) =>
                            IF ~interruptible[H]
                            THEN /\ HooksSinceEntry = <<>>
                                 /\ currentCommand[S] = NULL
                                 /\ D \notin m_commands
                                 /\ Holds(H, T)
                            ELSE /\ HooksSinceEntry = <<Call("Cancel", H, 88),
                                                       Call("Removed", H, 205),
                                                       Call("StartRunning", D, 97)>>
                                 /\ H \notin m_commands
                                 /\ Holds(D, S)
                                 /\ Holds(D, T))
    /\ [](pc = "confirm" =>
            /\ Confirmed = InOrder({s \in m_subsystems : s < subsystemIter})
            /\ \A i \in 1..Len(log) :
                   (log[i].f = "ProcessCommandAddition" /\ log[i].at = 164) =>
                       \/ \E j \in (i + 1)..Len(log) : log[j].f = "ConfirmCommand"
                       \/ /\ i = LastEntry
                          /\ AtEntry.arg = defaultCommand[subsystemIter]
                          /\ AtEntry.current[subsystemIter] = NULL)
    /\ []((m_enabled /\ pc = "done") => Confirmed = InOrder(m_subsystems))
    /\ []((~m_enabled /\ pc # "idle") => Confirmed = <<>>)

\* C24 witness: ConfirmCommand is about to be called on a subsystem that the
\* default loop found without holder, after its default command was rejected
\* for another subsystem it requires, whose holder is not interruptible.
C24_Witness ==
    /\ pc = "confirm"
    /\ FoundIdle
    /\ defaultCommand[subsystemIter] # NULL
    /\ currentCommand[subsystemIter] = NULL
    /\ \E T \in GetRequirements(defaultCommand[subsystemIter]) :
           /\ T # subsystemIter
           /\ AtEntry.current[T] # NULL
           /\ ~interruptible[AtEntry.current[T]]
    /\ HooksSinceEntry = <<>>

\* ProcessCommandAddition is between its first SetCurrentCommand and StartRunning.
InAdmission == pc \in {"give", "Cancel", "Removed"}

\* C25: ownership consistency: outside an admission in progress, and so
\* whenever no operation of the scheduler is in progress, every running
\* command is the current command of every subsystem it requires, and the
\* current command of a subsystem, if it has one, is running and requires
\* that subsystem.
C25_OwnershipConsistency ==
    ~InAdmission =>
        /\ \A c \in m_commands : \A s \in GetRequirements(c) : currentCommand[s] = c
        /\ \A s \in Subsystems :
               currentCommand[s] # NULL =>
                   /\ currentCommand[s] \in m_commands
                   /\ s \in GetRequirements(currentCommand[s])

\* C25 witness: no operation is in progress, two commands run and hold the
\* two subsystems between them, and a command that requires both is queued.
C25_Witness ==
    /\ pc = "idle"
    /\ Cardinality(m_commands) = 2
    /\ \A s \in Subsystems : currentCommand[s] # NULL
    /\ \E i \in 1..Len(m_additions) : Cardinality(GetRequirements(m_additions[i])) = 2

\* How often command c is in the pending-addition queue.
TimesQueued(c) == Cardinality({i \in 1..Len(m_additions) : m_additions[i] = c})

\* How often the drain loop of this Run has started command c.
StartedByDrain(c) ==
    Cardinality({i \in 1..Len(log) :
        /\ log[i] = Call("StartRunning", c, 97)
        /\ \A j \in 1..i : ~(log[j].f = "ProcessCommandAddition" /\ log[j].at = 164)})

\* C26: no command is in the pending-addition queue twice: AddCommand of a
\* queued command leaves the queue as it is, and in one Run the drain loop
\* passes a command to ProcessCommandAddition at most once and starts it at
\* most once, however often it was added.
C26_QueuedOnce ==
    /\ [](\A c \in Commands :
            /\ TimesQueued(c) <= 1
            /\ Cardinality(DrainedAt(c)) <= 1
            /\ StartedByDrain(c) <= 1)
    /\ [][\A c \in Commands :
            (AddCommand(c) /\ TimesQueued(c) = 1) => m_additions' = m_additions]_vars

\* C26 witness: every command is queued while a Run is not in progress, so
\* that each further AddCommand adds a queued command; two of them run, and
\* are passed to the next drain once more.
C26_Witness ==
    /\ pc = "idle"
    /\ \A c \in Commands : TimesQueued(c) = 1
    /\ Cardinality(m_commands) = 2

(* ------- the dashboard with a program that removes commands itself ----- *)

\* No subsystem has a default command.
InitDashboard ==
    /\ InitTelemetry
    /\ defaultCommand = [s \in Subsystems |-> NULL]

NextDashboard ==
    \/ NextTelemetry
    \/ \E c \in Commands : Remove(c)
    \/ RemoveAll

\* The scheduler with the dashboard and calls of Remove and RemoveAll
\* between the ticks.
DashboardSpec == InitDashboard /\ [][NextDashboard]_vars

\* C27 as stated: after every update of the table the published list of ids
\* holds exactly the ids of the running commands.
C27_AsStated ==
    [][UpdateTable => Range(m_idsEntry') = {GetID(c) : c \in m_commands'}]_vars

\* One call of Removed from Remove for each running command, in the order
\* in which RemoveAll takes them from the set.
RemovedAll == [i \in 1..Cardinality(m_commands) |-> Call("Removed", InOrder(m_commands)[i], 205)]

ResetCounters == [s \in Sensors |-> IF s \in Range(m_sensors) THEN 0 ELSE m_counter[s]]

\* Line 254: IsRangeValid() with the counter at count.
IsRangeValid(count) == count > 1

\* Lines 197-218: SetAutomaticMode(enabling) up to its return to `to`, or
\* up to the join when it turns the mode off. Assigning a new thread to an
\* m_thread that is still joinable ends the program.
SetAutomaticMode(enabling, to) ==
    IF enabling = m_automaticEnabled
    THEN /\ caller' = to
         /\ UNCHANGED <<m_automaticEnabled, m_counter, m_thread, checker, sensorIter, return>>
    ELSE /\ m_automaticEnabled' = enabling
         /\ IF enabling
            THEN /\ m_counter' = ResetCounters
                 /\ m_thread' = "joinable"
                 /\ checker' = "while"
                 /\ sensorIter' = 0
                 /\ caller' = IF m_thread = "joinable" THEN "terminate" ELSE to
                 /\ UNCHANGED return
            ELSE /\ caller' = "join"
                 /\ return' = to
                 /\ UNCHANGED <<m_counter, m_thread, checker, sensorIter>>

\* The operation in progress after a step of the calling thread.
Operation(name, self, originalMode) ==
    IF caller' = "idle" THEN NoOperation
    ELSE [name |-> name, self |-> self, originalMode |-> originalMode]

\* SetAutomaticMode called by the program.
CallSetAutomaticMode(enabling) ==
    /\ caller = "idle"
    /\ SetAutomaticMode(enabling, "idle")
    /\ operation' = Operation("SetAutomaticMode", NULL, m_automaticEnabled)
    /\ UNCHANGED <<m_sensors, m_enabledSensor, constructed, pinged, asserted>>
    /\ UNCHANGED <<scheduler, dio>>

\* Join that does not wait for the background task.
JoinWithoutWaiting ==
    /\ caller = "join"
    /\ m_thread' = "none"
    /\ m_counter' = ResetCounters
    /\ caller' = return
    /\ return' = "idle"
    /\ operation' = Operation(operation.name, operation.self, operation.originalMode)
    /\ UNCHANGED <<m_automaticEnabled, m_sensors, m_enabledSensor, constructed, checker,
                   sensorIter, pinged, asserted>>
    /\ UNCHANGED <<scheduler, dio>>

\* Lines 219-226: m_thread.join() returns when UltrasonicChecker has
\* returned; then the counters are reset and SetAutomaticMode returns.
Join ==
    /\ caller = "join"
    /\ checker = "ended"
    /\ m_thread' = "none"
    /\ checker' = "off"
    /\ m_counter' = ResetCounters
    /\ caller' = return
    /\ return' = "idle"
    /\ operation' = Operation(operation.name, operation.self, operation.originalMode)
    /\ UNCHANGED <<m_automaticEnabled, m_sensors, m_enabledSensor, constructed, sensorIter,
                   pinged, asserted>>
    /\ UNCHANGED <<scheduler, dio>>

\* Lines 61-62: a constructor calls Initialize, which turns the mode off.
Initialize(s) ==
    /\ caller = "idle"
    /\ s \notin constructed
    /\ constructed' = constructed \cup {s}
    /\ SetAutomaticMode(FALSE, "emplace_back")
    /\ operation' = Operation("Initialize", s, m_automaticEnabled)
    /\ UNCHANGED <<m_sensors, m_enabledSensor, pinged, asserted>>
    /\ UNCHANGED <<scheduler, dio>>

\* Lines 64-69: the sensor goes to the end of the list, with its counter
\* reset, and is made available to the round robin.
EmplaceBack ==
    /\ caller = "emplace_back"
    /\ m_sensors' = Append(m_sensors, operation.self)
    /\ m_counter' = [m_counter EXCEPT ![operation.self] = 0]
    /\ m_enabledSensor' = [m_enabledSensor EXCEPT ![operation.self] = TRUE]
    /\ caller' = "restore"
    /\ UNCHANGED <<m_automaticEnabled, m_thread, constructed, checker, sensorIter, pinged,
                   operation, return, asserted>>
    /\ UNCHANGED <<scheduler, dio>>

\* Lines 172-173: the destructor turns the mode off.
Destroy(s) ==
    /\ caller = "idle"
    /\ s \in constructed
    /\ SetAutomaticMode(FALSE, "erase")
    /\ operation' = Operation("~Ultrasonic", s, m_automaticEnabled)
    /\ UNCHANGED <<m_sensors, m_enabledSensor, constructed, pinged, asserted>>
    /\ UNCHANGED <<scheduler, dio>>

\* Lines 176-181: the sensor is erased from the list; the mode is turned on
\* again if it was on and a sensor is left.
Erase ==
    /\ caller = "erase"
    /\ m_sensors' = SelectSeq(m_sensors, LAMBDA s : s # operation.self)
    /\ constructed' = constructed \ {operation.self}
    /\ caller' = IF m_sensors' # <<>> /\ operation.originalMode THEN "restore" ELSE "idle"
    /\ operation' = Operation(operation.name, operation.self, operation.originalMode)
    /\ UNCHANGED <<m_automaticEnabled, m_thread, m_counter, m_enabledSensor, checker,
                   sensorIter, pinged, return, asserted>>
    /\ UNCHANGED <<scheduler, dio>>

\* Line 70, and line 180: SetAutomaticMode with the mode found at the start.
Restore ==
    /\ caller = "restore"
    /\ SetAutomaticMode(operation.originalMode, "idle")
    /\ operation' = Operation(operation.name, operation.self, operation.originalMode)
    /\ UNCHANGED <<m_sensors, m_enabledSensor, constructed, pinged, asserted>>
    /\ UNCHANGED <<scheduler, dio>>

\* Lines 237-245: Ping. wpi_assert reports a call made in automatic mode;
\* whether the statements after a failed assertion run depends on the build.
Ping(s) ==
    /\ caller = "idle"
    /\ s \in constructed
    /\ asserted' = m_automaticEnabled
    /\ \E goesOn \in (IF m_automaticEnabled THEN BOOLEAN ELSE {TRUE}) :
           m_counter' = IF goesOn THEN [m_counter EXCEPT ![s] = 0] ELSE m_counter
    /\ UNCHANGED <<m_automaticEnabled, m_sensors, m_thread, m_enabledSensor, constructed,
                   checker, sensorIter, pinged, caller, operation, return>>
    /\ UNCHANGED <<scheduler, dio>>

\* The counter of a sensor counts an edge of its echo signal.
Echo(s) ==
    /\ s \in constructed
    /\ m_counter[s] < 2
    /\ m_counter' = [m_counter EXCEPT ![s] = @ + 1]
    /\ UNCHANGED <<m_automaticEnabled, m_sensors, m_thread, m_enabledSensor, constructed,
                   checker, sensorIter, pinged, caller, operation, return, asserted>>
    /\ UNCHANGED <<scheduler, dio>>

\* The program takes a sensor out of the round robin or puts it back.
SetEnabledSensor(s, enable) ==
    /\ caller = "idle"
    /\ s \in constructed
    /\ m_enabledSensor' = [m_enabledSensor EXCEPT ![s] = enable]
    /\ UNCHANGED <<m_automaticEnabled, m_sensors, m_thread, m_counter, constructed,
                   checker, sensorIter, pinged, caller, operation, return, asserted>>
    /\ UNCHANGED <<scheduler, dio>>

\* Line 39: the test of the while loop of UltrasonicChecker.
CheckerWhile ==
    /\ checker = "while"
    /\ IF m_automaticEnabled
       THEN /\ checker' = "for"
            /\ sensorIter' = 1
       ELSE /\ checker' = "ended"
            /\ sensorIter' = 0
    /\ UNCHANGED <<m_automaticEnabled, m_sensors, m_thread, m_counter, m_enabledSensor,
                   constructed, pinged, caller, operation, return, asserted>>
    /\ UNCHANGED <<scheduler, dio>>

\* CheckerFor that goes to the next sensor without waiting.
CheckerForWithoutWait ==
    /\ checker = "for"
    /\ IF sensorIter > Len(m_sensors) \/ ~m_automaticEnabled
       THEN /\ checker' = "while"
            /\ sensorIter' = 0
            /\ UNCHANGED pinged
       ELSE /\ pinged' = IF m_enabledSensor[m_sensors[sensorIter]]
                         THEN pinged \cup {m_sensors[sensorIter]}
                         ELSE pinged
            /\ sensorIter' = sensorIter + 1
            /\ UNCHANGED checker
    /\ UNCHANGED <<m_automaticEnabled, m_sensors, m_thread, m_counter, m_enabledSensor,
                   constructed, caller, operation, return, asserted>>
    /\ UNCHANGED <<scheduler, dio>>

\* Lines 40-45: one turn of the for loop up to the wait: the loop ends at
\* the end of the list or when the mode is off; an enabled sensor is pinged.
CheckerFor ==
    /\ checker = "for"
    /\ IF sensorIter > Len(m_sensors) \/ ~m_automaticEnabled
       THEN /\ checker' = "while"
            /\ sensorIter' = 0
            /\ UNCHANGED pinged
       ELSE /\ pinged' = IF m_enabledSensor[m_sensors[sensorIter]]
                         THEN pinged \cup {m_sensors[sensorIter]}
                         ELSE pinged
            /\ checker' = "wait"
            /\ UNCHANGED sensorIter
    /\ UNCHANGED <<m_automaticEnabled, m_sensors, m_thread, m_counter, m_enabledSensor,
                   constructed, caller, operation, return, asserted>>
    /\ UNCHANGED <<scheduler, dio>>

\* Line 47: Wait(0.1) returns, and the loop goes to the next sensor.
CheckerWait ==
    /\ checker = "wait"
    /\ pinged' = pinged \ {m_sensors[sensorIter]}
    /\ sensorIter' = sensorIter + 1
    /\ checker' = "for"
    /\ UNCHANGED <<m_automaticEnabled, m_sensors, m_thread, m_counter, m_enabledSensor,
                   constructed, caller, operation, return, asserted>>
    /\ UNCHANGED <<scheduler, dio>>

NextUltrasonic ==
    \/ \E s \in Sensors : Initialize(s)
    \/ EmplaceBack
    \/ \E s \in Sensors : Destroy(s)
    \/ Erase
    \/ Restore
    \/ \E enabling \in BOOLEAN : CallSetAutomaticMode(enabling)
    \/ Join
    \/ \E s \in Sensors : Ping(s)
    \/ \E s \in Sensors : Echo(s)
    \/ \E s \in Sensors : \E enable \in BOOLEAN : SetEnabledSensor(s, enable)
    \/ CheckerWhile
    \/ CheckerFor
    \/ CheckerWait

\* The ultrasonic sensors of a program, with a scheduler that is left alone.
UltrasonicSpec == InitDashboard /\ [][NextUltrasonic]_vars

\* A step that ends the operation of the calling thread.
Returns(name) == caller # "idle" /\ caller' = "idle" /\ operation.name = name

\* The background task does not exist: it has returned and has been joined.
NotRunning == checker = "off" /\ m_thread = "none"

\* C29: the sensor list changes only while the background task is not
\* running and the mode is off; when Initialize returns the mode is the one
\* found at its start; when the destructor returns the mode is the one found
\* at its start if a sensor is left, and off if none is left;
\* SetAutomaticMode with the mode in effect changes nothing; when the join
\* of SetAutomaticMode(false) is over the background task has ended, and a
\* background task is never started while one exists.
C29_SensorListDiscipline ==
    /\ [][m_sensors' # m_sensors => NotRunning /\ ~m_automaticEnabled]_vars
    /\ [][Returns("Initialize") => m_automaticEnabled' = operation.originalMode]_vars
    /\ [][Returns("~Ultrasonic") =>
             m_automaticEnabled' = (operation.originalMode /\ m_sensors' # <<>>)]_vars
    /\ [][\A enabling \in BOOLEAN :
             CallSetAutomaticMode(enabling) /\ enabling = m_automaticEnabled
                 => UNCHANGED vars]_vars
    /\ [][caller = "join" /\ caller' # "join" => NotRunning']_vars
    /\ [](~m_automaticEnabled /\ caller # "join" => NotRunning)
    /\ [](caller # "terminate")

\* The destructor of the only sensor has turned automatic mode off, the
\* background task has ended, and the sensor is about to be erased.
C29_Witness ==
    /\ operation.name = "~Ultrasonic"
    /\ operation.originalMode
    /\ caller = "erase"
    /\ Len(m_sensors) = 1
    /\ NotRunning

\* The background task goes from one entry of the list to the next, or to
\* the start of the list, or out of the loop.
NextEntry ==
    \/ sensorIter' = sensorIter + 1 /\ checker = "wait"
    \/ sensorIter' = 1 /\ sensorIter = 0 /\ checker = "while"
    \/ sensorIter' = 0

Get(handle) == IF handle \in 1..NumChannels THEN handle ELSE NULL

\* Line 68: the mask of ComputeDigitalMask, the bit of the channel of the port.
ComputeDigitalMask(port) == 2^(port - 1)

\* Whether the bits of mask, a single bit, are set in value.
HasBits(value, mask) == (value \div mask) % 2 = 1

\* Lines 74 and 78: value |= mask.
Or(value, mask) == IF HasBits(value, mask) THEN value ELSE value + mask

\* Lines 76 and 80: value &= ~mask.
AndNot(value, mask) == IF HasBits(value, mask) THEN value - mask ELSE value

\* Lines 73-82: the proxy built from the two registers and the mask.
DIOSetProxy(enable, do, mask) ==
    [m_setOutputDirReg     |-> Or(enable, mask),
     m_unsetOutputDirReg   |-> AndNot(Or(enable, mask), mask),
     m_setOutputStateReg   |-> Or(do, mask),
     m_unsetOutputStateReg |-> AndNot(Or(do, mask), mask)]

\* Lines 22-36: the member functions of the proxy a functor may call.
ProxyFunctions == {"SetOutputMode", "SetInputMode", "SetOutputTrue", "SetOutputFalse"}

\* The functors of the callers: each calls at most one function of the proxy.
Functors == {<<>>} \cup {<<f>> : f \in ProxyFunctions}

\* Lines 22-28: the OutputEnable register after func(dioData).
OutputEnableAfter(func, proxy) ==
    IF func = <<"SetOutputMode">> THEN proxy.m_setOutputDirReg
    ELSE IF func = <<"SetInputMode">> THEN proxy.m_unsetOutputDirReg
    ELSE outputEnable

\* Lines 30-36: the DO register after func(dioData).
DOAfter(func, proxy) ==
    IF func = <<"SetOutputTrue">> THEN proxy.m_setOutputStateReg
    ELSE IF func = <<"SetOutputFalse">> THEN proxy.m_unsetOutputStateReg
    ELSE DO

\* Lines 59-84: UnsafeManipulateDIO(handle, status, func), with *status at
\* entry and the status that ComputeDigitalMask reports (0: it leaves
\* *status alone). Line 69 tests the pointer status, not *status.
UnsafeManipulateDIO(handle, statusPointer, entry, maskStatus, func) ==
    LET port == Get(handle)
        mask == ComputeDigitalMask(port)
        proxy == DIOSetProxy(outputEnable, DO, mask)
    IN  /\ dioCall' = [handle |-> handle, status |-> statusPointer, entry |-> entry,
                       maskStatus |-> maskStatus, func |-> func]
        /\ IF port = NULL
           THEN /\ status' = HAL_HANDLE_ERROR
                /\ funcCalls' = <<>>
                /\ UNCHANGED <<outputEnable, DO>>
           ELSE /\ status' = IF maskStatus = 0 THEN entry ELSE maskStatus
                /\ IF statusPointer # 0
                   THEN /\ funcCalls' = <<>>
                        /\ UNCHANGED <<outputEnable, DO>>
                   ELSE /\ funcCalls' = <<[proxy |-> proxy, mask |-> mask, dioMutex |-> "held"]>>
                        /\ outputEnable' = OutputEnableAfter(func, proxy)
                        /\ DO' = DOAfter(func, proxy)
        /\ UNCHANGED <<scheduler, sonic>>

\* tDIO::writeOutputEnable (lines 23 and 27), called by another function of the HAL.
writeOutputEnable(value) ==
    /\ outputEnable' = value
    /\ UNCHANGED <<DO, status, dioCall, funcCalls>>
    /\ UNCHANGED <<scheduler, sonic>>

\* tDIO::writeDO (lines 31 and 35), called by another function of the HAL.
writeDO(value) ==
    /\ DO' = value
    /\ UNCHANGED <<outputEnable, status, dioCall, funcCalls>>
    /\ UNCHANGED <<scheduler, sonic>>

NextDIO ==
    \/ \E handle \in Handles : \E statusPointer \in StatusPointers :
           \E entry \in StatusValues : \E maskStatus \in {0, HAL_HANDLE_ERROR} :
               \E func \in Functors :
                   UnsafeManipulateDIO(handle, statusPointer, entry, maskStatus, func)
    \/ \E value \in Registers : writeOutputEnable(value)
    \/ \E value \in Registers : writeDO(value)

\* The digital outputs of a program, with a scheduler and sensors that are
\* left alone.
DIOSpec == InitDashboard /\ [][NextDIO]_vars

\* The registers of a proxy for the mask: the set registers have the bits
\* of the mask, the unset registers do not.
ProxyFor(proxy, mask) ==
    /\ HasBits(proxy.m_setOutputDirReg, mask)
    /\ ~HasBits(proxy.m_unsetOutputDirReg, mask)
    /\ HasBits(proxy.m_setOutputStateReg, mask)
    /\ ~HasBits(proxy.m_unsetOutputStateReg, mask)

\* C31: a call of UnsafeManipulateDIO with a handle that has no port leaves
\* *status at HAL_HANDLE_ERROR and does not call func; a call with a handle
\* that has a port, after which *status is 0, has called func exactly once,
\* with the DIO mutex held, on a proxy whose set registers have the bits of
\* the mask of the channel and whose unset registers do not.
C31_AsStated ==
    [][dioCall' # dioCall =>
          /\ Get(dioCall'.handle) = NULL =>
                 status' = HAL_HANDLE_ERROR /\ funcCalls' = <<>>
          /\ Get(dioCall'.handle) # NULL /\ status' = 0 =>
                 /\ Len(funcCalls') = 1
                 /\ funcCalls'[1].dioMutex = "held"
                 /\ ProxyFor(funcCalls'[1].proxy,
                             ComputeDigitalMask(Get(dioCall'.handle)))]_vars
====
